---- MODULE Spec2Model ----
(***************************************************************************)
(* Klondike Solitaire: the rules engine (core/rules.ts), the deck factory  *)
(* (core/deck.ts), the dealer (core/dealing.ts), the serializer            *)
(* (core/serialize.ts) and the solve-game route: its request validation,  *)
(* depth-first solver and position heuristics.                             *)
(*                                                                         *)
(* The deck is createDeck over the four suits and the ranks 1..MaxRank;    *)
(* the highest rank plays the King (the source has 13 ranks, 52 cards and  *)
(* 7 tableau columns; the model keeps the code and scales these sizes).    *)
(***************************************************************************)
EXTENDS Integers, Sequences, FiniteSets, TLC

\* ------------------------------------------------------------------ bounds
MaxRank == 2
NumTableaux == 2
MaxSeed == 1
MaxDealSeed == 60
MaxMoves == 8
MaxIrregular == 1
MaxIrregularMoves == 2
MaxSolvedMoves == 0
SlowCall == 4000
FastCall == 1
LongGame == 148
ShallowDepth == 2
ShortLimit == 5000
MaxOpeningMoves == 2
MaxHistory == 2
AutoRanks == 3
AutoWaste == 2
SearchTableaux == 3
MaxSearchSeed == 40
MaxSnapshots == 2
MaxSnapshotSeed == 2
MaxGames == 2

\* ------------------------------------------------------------- card model
SUITS == <<"spades", "hearts", "diamonds", "clubs">>
SuitSet == {SUITS[i] : i \in 1..Len(SUITS)}
RANKS == 1..MaxRank
KingRank == MaxRank
DeckSize == Len(SUITS) * MaxRank

isRed(suit) == suit = "hearts" \/ suit = "diamonds"
isBlack(suit) == suit = "spades" \/ suit = "clubs"

\* `${suit}-${rank}`
CardId(suit, rank) == <<suit, rank>>

flipCard(card, faceUp) == [card EXCEPT !.faceUp = faceUp]

createDeck ==
  [k \in 1..DeckSize |->
     LET suit == SUITS[((k - 1) \div MaxRank) + 1]
         rank == ((k - 1) % MaxRank) + 1
     IN [id |-> CardId(suit, rank), suit |-> suit, rank |-> rank, faceUp |-> FALSE]]

\* Math.floor(Math.random() * (i + 1)) for the 0-based index i: one of the
\* values 0..i, drawn from the random stream numbered seed.
RandomIndex(seed, i) == (seed * (i + 3) + (seed \div 2)) % (i + 1)

Swap(s, a, b) == [s EXCEPT ![a] = s[b], ![b] = s[a]]

RECURSIVE shuffleFrom(_, _, _)
shuffleFrom(shuffled, i, seed) ==
  IF i <= 0 THEN shuffled
  ELSE shuffleFrom(Swap(shuffled, i + 1, RandomIndex(seed, i) + 1), i - 1, seed)

shuffleDeck(d, seed) == shuffleFrom(d, Len(d) - 1, seed)

createShuffledDeck(seed) == shuffleDeck(createDeck, seed)

\* ------------------------------------------------------------------ piles
FoundationName == [spades |-> "foundation-spades", hearts |-> "foundation-hearts",
                   diamonds |-> "foundation-diamonds", clubs |-> "foundation-clubs"]
TableauName == <<"tableau-1", "tableau-2", "tableau-3", "tableau-4",
                 "tableau-5", "tableau-6", "tableau-7">>
FoundationIds == {FoundationName[s] : s \in SuitSet}
TableauIds == {TableauName[k] : k \in 1..NumTableaux}
PileIds == {"stock", "waste"} \cup FoundationIds \cup TableauIds

\* The key of the pile object a pile id names: "foundation-spades" is
\* foundations.spades, "tableau-2" is tableaux[2].
FoundationKey == [pid \in FoundationIds |-> CHOOSE s \in SuitSet : FoundationName[s] = pid]
TableauKey == [pid \in TableauIds |-> CHOOSE k \in 1..NumTableaux : TableauName[k] = pid]

\* The cards of the pile getPileById returns; pile ids are drawn from
\* PileIds, so the default branch (null) is never taken.
getPileById(gs, pileId) ==
  CASE pileId = "stock" -> gs.stock
    [] pileId = "waste" -> gs.waste
    [] pileId \in FoundationIds -> gs.foundations[FoundationKey[pileId]]
    [] pileId \in TableauIds -> gs.tableaux[TableauKey[pileId]]

\* pile.cards = cards on the pile object that getPileById returned
setPileCards(gs, pileId, cards) ==
  CASE pileId = "stock" -> [gs EXCEPT !.stock = cards]
    [] pileId = "waste" -> [gs EXCEPT !.waste = cards]
    [] pileId \in FoundationIds -> [gs EXCEPT !.foundations[FoundationKey[pileId]] = cards]
    [] pileId \in TableauIds -> [gs EXCEPT !.tableaux[TableauKey[pileId]] = cards]

\* ----------------------------------------------------------------- dealer
\* The card index of the deck (0-based) that the nested deal loops
\* (col = 1..7, row = col..7) hand to tableau `row` as its col-th card.
DealIndex(col, row) ==
  LET before == (col - 1) * NumTableaux - ((col - 1) * (col - 2)) \div 2
  IN before + (row - col)

TableauCardCount == (NumTableaux * (NumTableaux + 1)) \div 2

\* dealNewGame with the Stock sliced one card early: the last card dealt
\* to the tableau is in the Stock too.
dealNewGameStockFromLastDealt(shuffled, drawMode) ==
  [stock |-> SubSeq(shuffled, TableauCardCount, Len(shuffled)),
   waste |-> <<>>,
   foundations |-> [s \in SuitSet |-> <<>>],
   tableaux |-> [row \in 1..NumTableaux |->
                   [col \in 1..row |->
                      LET card == shuffled[DealIndex(col, row) + 1]
                      IN IF col = row THEN flipCard([card EXCEPT !.faceUp = FALSE], TRUE)
                         ELSE [card EXCEPT !.faceUp = FALSE]]],
   drawMode |-> drawMode,
   moves |-> 0,
   score |-> 0,
   isComplete |-> FALSE]

dealNewGame(shuffled, drawMode) ==
  [stock |-> SubSeq(shuffled, TableauCardCount + 1, Len(shuffled)),
   waste |-> <<>>,
   foundations |-> [s \in SuitSet |-> <<>>],
   tableaux |-> [row \in 1..NumTableaux |->
                   [col \in 1..row |->
                      LET card == shuffled[DealIndex(col, row) + 1]
                      IN IF col = row THEN flipCard([card EXCEPT !.faceUp = FALSE], TRUE)
                         ELSE [card EXCEPT !.faceUp = FALSE]]],
   drawMode |-> drawMode,
   moves |-> 0,
   score |-> 0,
   isComplete |-> FALSE]

\* resetGame(drawMode): a fresh deal of the deck shuffled from stream seed
resetGame(seed, drawMode) == dealNewGame(createShuffledDeck(seed), drawMode)

\* ----------------------------------------------------------- rules engine
Last(s) == s[Len(s)]

canPlaceOnFoundation(card, foundationCards) ==
  IF Len(foundationCards) = 0 THEN card.rank = 1
  ELSE LET topCard == Last(foundationCards)
       IN card.suit = topCard.suit /\ card.rank = topCard.rank + 1

\* canPlaceOnTableau letting an empty tableau accept any card.
canPlaceOnTableauAnyOnEmpty(cards, tableauCards) ==
  IF Len(cards) = 0 THEN FALSE
  ELSE LET cardToPlace == cards[1]
       IN IF Len(tableauCards) = 0 THEN TRUE
          ELSE LET topCard == Last(tableauCards)
               IN /\ cardToPlace.rank = topCard.rank - 1
                  /\ \/ isRed(cardToPlace.suit) /\ isBlack(topCard.suit)
                     \/ isBlack(cardToPlace.suit) /\ isRed(topCard.suit)

canPlaceOnTableau(cards, tableauCards) ==
  IF Len(cards) = 0 THEN FALSE
  ELSE LET cardToPlace == cards[1]
       IN IF Len(tableauCards) = 0 THEN cardToPlace.rank = KingRank
          ELSE LET topCard == Last(tableauCards)
               IN /\ cardToPlace.rank = topCard.rank - 1
                  /\ \/ isRed(cardToPlace.suit) /\ isBlack(topCard.suit)
                     \/ isBlack(cardToPlace.suit) /\ isRed(topCard.suit)

\* The loop of getMovableTableauCards at index i (1-based) with the cards
\* collected so far.
RECURSIVE movableFrom(_, _, _)
movableFrom(tableauCards, i, movableCards) ==
  IF i < 1 THEN movableCards
  ELSE LET card == tableauCards[i]
       IN IF ~card.faceUp THEN movableCards
          ELSE LET unshifted == <<card>> \o movableCards
                   nextCard == tableauCards[i + 1]
               IN IF i < Len(tableauCards)
                     /\ ~(/\ card.rank = nextCard.rank + 1
                          /\ \/ isRed(card.suit) /\ isBlack(nextCard.suit)
                             \/ isBlack(card.suit) /\ isRed(nextCard.suit))
                  THEN unshifted
                  ELSE movableFrom(tableauCards, i - 1, unshifted)

getMovableTableauCards(tableauCards) ==
  IF Len(tableauCards) = 0 THEN <<>>
  ELSE movableFrom(tableauCards, Len(tableauCards), <<>>)

isValidMove(move, gs) ==
  IF Len(move.cards) = 0 THEN FALSE
  ELSE
    LET fromCards == getPileById(gs, move.from)
        toCards == getPileById(gs, move.to)
        moveCards == move.cards
        startIndex == Len(fromCards) - Len(moveCards)
    IN IF move.from \notin PileIds \/ move.to \notin PileIds THEN FALSE
       ELSE IF Len(fromCards) < Len(moveCards) THEN FALSE
       ELSE IF \E i \in 1..Len(moveCards) : fromCards[startIndex + i].id # moveCards[i].id
            THEN FALSE
       ELSE IF move.to \in FoundationIds
            THEN IF Len(moveCards) # 1 THEN FALSE
                 ELSE canPlaceOnFoundation(moveCards[1], toCards)
       ELSE IF move.to \in TableauIds THEN canPlaceOnTableau(moveCards, toCards)
       ELSE IF move.from = "stock" /\ move.to = "waste" THEN TRUE
       ELSE FALSE

\* isGameComplete comparing the total with the size of one suit.
isGameCompleteOneSuit(gs) ==
  LET totalFoundationCards ==
        Len(gs.foundations["spades"]) + Len(gs.foundations["hearts"])
        + Len(gs.foundations["diamonds"]) + Len(gs.foundations["clubs"])
  IN totalFoundationCards = MaxRank

isGameComplete(gs) ==
  LET totalFoundationCards ==
        Len(gs.foundations["spades"]) + Len(gs.foundations["hearts"])
        + Len(gs.foundations["diamonds"]) + Len(gs.foundations["clubs"])
  IN totalFoundationCards = DeckSize

\* applyMove that pushes the cards onto the destination and leaves them on
\* the source pile as well.
applyMoveStateKeepingSource(move, gs) ==
  LET added == setPileCards(gs, move.to, getPileById(gs, move.to) \o move.cards)
      counted == [added EXCEPT !.moves = added.moves + 1]
  IN [counted EXCEPT !.isComplete = isGameComplete(counted)]

\* applyMove that forgets newState.moves++.
applyMoveStateUncounted(move, gs) ==
  LET n == Len(move.cards)
      fromCards == getPileById(gs, move.from)
      removed == setPileCards(gs, move.from, SubSeq(fromCards, 1, Len(fromCards) - n))
      added == setPileCards(removed, move.to, getPileById(removed, move.to) \o move.cards)
  IN [added EXCEPT !.isComplete = isGameComplete(added)]

\* The body of applyMove after its validity check: the new state.
applyMoveState(move, gs) ==
  LET n == Len(move.cards)
      fromCards == getPileById(gs, move.from)
      removed == setPileCards(gs, move.from, SubSeq(fromCards, 1, Len(fromCards) - n))
      added == setPileCards(removed, move.to, getPileById(removed, move.to) \o move.cards)
      fromAfter == getPileById(added, move.from)
      flipped ==
        IF move.from \in TableauIds /\ Len(fromAfter) > 0 /\ ~Last(fromAfter).faceUp
        THEN setPileCards(added, move.from,
               [fromAfter EXCEPT ![Len(fromAfter)] = flipCard(Last(fromAfter), TRUE)])
        ELSE added
      counted == [flipped EXCEPT !.moves = flipped.moves + 1]
  IN [counted EXCEPT !.isComplete = isGameComplete(counted)]

\* applyMove without its validity check.
applyMoveUnchecked(move, gs) ==
  [threw |-> FALSE, error |-> "", state |-> applyMoveState(move, gs)]

\* applyMove(move, gameState): throws Error("Invalid move") when isValidMove
\* rejects the move, else returns the new state.
applyMove(move, gs) ==
  IF ~isValidMove(move, gs)
  THEN [threw |-> TRUE, error |-> "Invalid move", state |-> gs]
  ELSE [threw |-> FALSE, error |-> "", state |-> applyMoveState(move, gs)]

\* makeMove(gameState, move): { success: false, error } when isValidMove
\* rejects the move or applyMove throws, else { success: true, state }.
makeMove(gs, move) ==
  IF ~isValidMove(move, gs)
  THEN [success |-> FALSE, error |-> "Invalid move", state |-> gs]
  ELSE LET r == applyMove(move, gs)
       IN IF r.threw THEN [success |-> FALSE, error |-> r.error, state |-> gs]
          ELSE [success |-> TRUE, error |-> "", state |-> r.state]

Min(a, b) == IF a < b THEN a ELSE b

Reverse(s) == [i \in 1..Len(s) |-> s[Len(s) + 1 - i]]

\* drawFromStock that recycles the Waste without reversing it.
drawFromStockUnreversed(gs) ==
  IF Len(gs.stock) = 0
  THEN [gs EXCEPT !.stock = [i \in 1..Len(gs.waste) |-> flipCard(gs.waste[i], FALSE)],
                  !.waste = <<>>]
  ELSE LET cardsToDraw == Min(gs.drawMode, Len(gs.stock))
           drawnCards == SubSeq(gs.stock, 1, cardsToDraw)
       IN [gs EXCEPT !.stock = SubSeq(gs.stock, cardsToDraw + 1, Len(gs.stock)),
                     !.waste = gs.waste \o [i \in 1..cardsToDraw |-> flipCard(drawnCards[i], TRUE)]]

\* drawFromStock taking the cards from the end of the stock array.
drawFromStockFromEnd(gs) ==
  IF Len(gs.stock) = 0
  THEN [gs EXCEPT !.stock = [i \in 1..Len(gs.waste) |-> flipCard(Reverse(gs.waste)[i], FALSE)],
                  !.waste = <<>>]
  ELSE LET cardsToDraw == Min(gs.drawMode, Len(gs.stock))
           drawnCards == SubSeq(gs.stock, Len(gs.stock) - cardsToDraw + 1, Len(gs.stock))
       IN [gs EXCEPT !.stock = SubSeq(gs.stock, 1, Len(gs.stock) - cardsToDraw),
                     !.waste = gs.waste \o [i \in 1..cardsToDraw |-> flipCard(drawnCards[i], TRUE)]]

drawFromStock(gs) ==
  IF Len(gs.stock) = 0
  THEN [gs EXCEPT !.stock = [i \in 1..Len(gs.waste) |-> flipCard(Reverse(gs.waste)[i], FALSE)],
                  !.waste = <<>>]
  ELSE LET cardsToDraw == Min(gs.drawMode, Len(gs.stock))
           drawnCards == SubSeq(gs.stock, 1, cardsToDraw)
       IN [gs EXCEPT !.stock = SubSeq(gs.stock, cardsToDraw + 1, Len(gs.stock)),
                     !.waste = gs.waste \o [i \in 1..cardsToDraw |-> flipCard(drawnCards[i], TRUE)]]

\* ------------------------------------------- the engine on object memory
\* The same transitions, statement by statement, on objects that can be
\* shared.  A GameState object holds its counters and a reference to each
\* of its 13 pile objects; heap maps a pile reference to pile.cards.  Card
\* objects are never assigned to after they are built (flipCard returns a
\* new object), so they are kept as values.
PileRef(owner, pileId) == <<owner, pileId>>

\* The caller's GameState gs as an object in memory.
Load(gs) ==
  [object |-> [piles |-> [pid \in PileIds |-> PileRef("gameState", pid)],
               drawMode |-> gs.drawMode, moves |-> gs.moves,
               score |-> gs.score, isComplete |-> gs.isComplete],
   heap |-> [ref \in {PileRef("gameState", pid) : pid \in PileIds} |->
               getPileById(gs, ref[2])]]

\* The GameState value an object stands for.
Read(object, heap) ==
  [stock |-> heap[object.piles["stock"]],
   waste |-> heap[object.piles["waste"]],
   foundations |-> [s \in SuitSet |-> heap[object.piles[FoundationName[s]]]],
   tableaux |-> [k \in 1..NumTableaux |-> heap[object.piles[TableauName[k]]]],
   drawMode |-> object.drawMode,
   moves |-> object.moves,
   score |-> object.score,
   isComplete |-> object.isComplete]

\* { ...gameState }: a new GameState object that shares the pile objects.
spreadCopy(object, heap) == [object |-> object, heap |-> heap]

\* JSON.parse(JSON.stringify(gameState)): a new GameState object with new
\* pile objects holding copies of the cards.
jsonCopy(object, heap) ==
  [object |-> [object EXCEPT !.piles = [pid \in PileIds |-> PileRef("newState", pid)]],
   heap |-> heap @@ [ref \in {PileRef("newState", pid) : pid \in PileIds} |->
                       heap[object.piles[ref[2]]]]]

applyMoveOnHeap(move, object, heap) ==
  IF ~isValidMove(move, Read(object, heap))
  THEN [threw |-> TRUE, object |-> object, heap |-> heap]
  ELSE
    LET copy == jsonCopy(object, heap)
        newState == copy.object
        fromPile == newState.piles[move.from]
        toPile == newState.piles[move.to]
        sliced == [copy.heap EXCEPT ![fromPile] = SubSeq(@, 1, Len(@) - Len(move.cards))]
        pushed == [sliced EXCEPT ![toPile] = @ \o move.cards]
        flipped ==
          IF /\ move.from \in TableauIds
             /\ Len(pushed[fromPile]) > 0
             /\ ~Last(pushed[fromPile]).faceUp
          THEN [pushed EXCEPT ![fromPile][Len(pushed[fromPile])] =
                                 flipCard(Last(pushed[fromPile]), TRUE)]
          ELSE pushed
        counted == [newState EXCEPT !.moves = @ + 1]
    IN [threw |-> FALSE,
        object |-> [counted EXCEPT !.isComplete = isGameComplete(Read(counted, flipped))],
        heap |-> flipped]

drawFromStockOnHeap(object, heap) ==
  LET copy == jsonCopy(object, heap)
      newState == copy.object
      stock == newState.piles["stock"]
      waste == newState.piles["waste"]
  IN IF Len(copy.heap[stock]) = 0
     THEN [object |-> newState,
           heap |-> [copy.heap EXCEPT
                       ![stock] = [i \in 1..Len(copy.heap[waste]) |->
                                     flipCard(Reverse(copy.heap[waste])[i], FALSE)],
                       ![waste] = <<>>]]
     ELSE LET cardsToDraw == Min(newState.drawMode, Len(copy.heap[stock]))
              drawnCards == SubSeq(copy.heap[stock], 1, cardsToDraw)
          IN [object |-> newState,
              heap |-> [copy.heap EXCEPT
                          ![stock] = SubSeq(@, cardsToDraw + 1, Len(@)),
                          ![waste] = @ \o [i \in 1..cardsToDraw |->
                                             flipCard(drawnCards[i], TRUE)]]]

\* ------------------------------------------ the store of lib/game-store.ts
\* drawCards on object memory.  The new currentState is a spread copy of
\* the old one with a new stock and a new waste pile object; owner names
\* the new objects.
drawCardsOnHeap(object, heap) ==
  LET stockCards == heap[object.piles["stock"]]
      wasteCards == heap[object.piles["waste"]]
      newStock == PileRef("drawCards", "stock")
      newWaste == PileRef("drawCards", "waste")
      newState == [object EXCEPT !.piles["stock"] = newStock, !.piles["waste"] = newWaste]
  IN IF Len(stockCards) > 0
     THEN LET cardsToDraw == Min(object.drawMode, Len(stockCards))
              drawnCards == [i \in 1..cardsToDraw |-> [stockCards[i] EXCEPT !.faceUp = TRUE]]
          IN [object |-> newState,
              heap |-> heap @@ (newStock :> SubSeq(stockCards, cardsToDraw + 1, Len(stockCards)))
                            @@ (newWaste :> drawnCards \o wasteCards)]
     ELSE IF Len(wasteCards) > 0
     THEN \* state.currentState.waste.cards.reverse() reverses that array itself
          LET reversed == [heap EXCEPT ![object.piles["waste"]] = Reverse(@)]
          IN [object |-> newState,
              heap |-> reversed
                       @@ (newStock :> [i \in 1..Len(wasteCards) |->
                                          [reversed[object.piles["waste"]][i] EXCEPT !.faceUp = FALSE]])
                       @@ (newWaste :> <<>>)]
     ELSE [object |-> object, heap |-> heap]

\* The currentState drawCards sets.
drawCards(gs) ==
  LET drawn == drawCardsOnHeap(Load(gs).object, Load(gs).heap)
  IN Read(drawn.object, drawn.heap)

\* The store: [currentState, moveHistory].  makeMove(move): the new store
\* and the boolean it returns.
storeMakeMove(store, move) ==
  LET result == makeMove(store.currentState, move)
  IN IF result.success
     THEN [returned |-> TRUE,
           store |-> [currentState |-> result.state,
                      moveHistory |-> Append(store.moveHistory, move)]]
     ELSE [returned |-> FALSE, store |-> store]

\* for (const move of newMoveHistory) { ... }: the moves from index i on,
\* replayed on replayState; a move makeMove rejects is passed over.
RECURSIVE replayMoves(_, _, _)
replayMoves(newMoveHistory, i, replayState) ==
  IF i > Len(newMoveHistory) THEN replayState
  ELSE LET result == makeMove(replayState, newMoveHistory[i])
       IN replayMoves(newMoveHistory, i + 1,
                      IF result.success THEN result.state ELSE replayState)

\* undo(): initGame deals the deck shuffled from the random stream seed.
undo(store, seed) ==
  IF Len(store.moveHistory) = 0 THEN store
  ELSE LET newMoveHistory == SubSeq(store.moveHistory, 1, Len(store.moveHistory) - 1)
           initialState == dealNewGame(createShuffledDeck(seed), store.currentState.drawMode)
       IN [currentState |-> replayMoves(newMoveHistory, 1, initialState),
           moveHistory |-> newMoveHistory]

\* ------------------------------------------------------------- serializer
\* A card token `${suit}${rank.toString(16)}${face}` is the triple of its
\* three characters.
SuitLetter == [spades |-> "s", hearts |-> "h", diamonds |-> "d", clubs |-> "c"]
HexDigits == <<"1", "2", "3", "4", "5", "6", "7", "8", "9", "a", "b", "c", "d", "e", "f">>

\* rank.toString(16) for the ranks 1..15
toHex(rank) == HexDigits[rank]
\* parseInt(str, 16) for one hex digit
parseHex(str) == CHOOSE n \in 1..Len(HexDigits) : HexDigits[n] = str

serializeCard(card) ==
  <<SuitLetter[card.suit], toHex(card.rank), IF card.faceUp THEN "1" ELSE "0">>

\* cards.map(serializeCard)
RECURSIVE serializeCards(_)
serializeCards(cards) ==
  IF Len(cards) = 0 THEN <<>>
  ELSE <<serializeCard(Head(cards))>> \o serializeCards(Tail(cards))

\* The object serializeGameState stringifies, which the route parses back.
serializeGameState(gs) ==
  [stock |-> serializeCards(gs.stock),
   waste |-> serializeCards(gs.waste),
   foundations |-> [s |-> serializeCards(gs.foundations["spades"]),
                    h |-> serializeCards(gs.foundations["hearts"]),
                    d |-> serializeCards(gs.foundations["diamonds"]),
                    c |-> serializeCards(gs.foundations["clubs"])],
   tableaux |-> SubSeq([k \in 1..NumTableaux |-> serializeCards(gs.tableaux[k])],
                       1, NumTableaux),
   drawMode |-> gs.drawMode,
   moves |-> gs.moves]

\* deserializeCard.suitMap
DeserializedSuit(letter) ==
  CASE letter = "s" -> "spades"
    [] letter = "h" -> "hearts"
    [] letter = "d" -> "diamonds"
    [] letter = "c" -> "clubs"

\* deserializeCard(cardStr) without the optional id: the id is rebuilt as
\* `${suit}-${rank}`.
deserializeCard(cardStr) ==
  LET suit == DeserializedSuit(cardStr[1])
      rank == parseHex(cardStr[2])
  IN [id |-> CardId(suit, rank), suit |-> suit, rank |-> rank, faceUp |-> cardStr[3] = "1"]

\* data.<pile>.map(c => deserializeCard(c))
RECURSIVE deserializeCards(_)
deserializeCards(tokens) ==
  IF Len(tokens) = 0 THEN <<>>
  ELSE <<deserializeCard(Head(tokens))>> \o deserializeCards(Tail(tokens))

\* The Partial<GameState> deserializeGameState returns: piles, drawMode and
\* moves (score, startTime and isComplete are not part of it).
deserializeGameState(data) ==
  [stock |-> deserializeCards(data.stock),
   waste |-> deserializeCards(data.waste),
   foundations |-> [spades |-> deserializeCards(data.foundations["s"]),
                    hearts |-> deserializeCards(data.foundations["h"]),
                    diamonds |-> deserializeCards(data.foundations["d"]),
                    clubs |-> deserializeCards(data.foundations["c"])],
   tableaux |-> [k \in 1..NumTableaux |-> deserializeCards(data.tableaux[k])],
   drawMode |-> data.drawMode,
   moves |-> data.moves]

\* ----------------------------------------------------------------- solver
maxDepth == 200
maxTime == 10000

SuitOfLetter(letter) ==
  CASE letter = "s" -> "spades"
    [] letter = "h" -> "hearts"
    [] letter = "d" -> "diamonds"
    [] letter = "c" -> "clubs"

parseCard(cardStr) ==
  LET suit == SuitOfLetter(cardStr[1])
  IN [suit |-> suit,
      rank |-> parseHex(cardStr[2]),
      faceUp |-> cardStr[3] = "1",
      color |-> IF suit = "hearts" \/ suit = "diamonds" THEN "red" ELSE "black"]

SolverFoundationLetters == <<"s", "h", "d", "c">>
SolverFoundationId == [s |-> "foundation-s", h |-> "foundation-h",
                       d |-> "foundation-d", c |-> "foundation-c"]

isGameWon(state) ==
  LET totalFoundationCards ==
        Len(state.foundations["s"]) + Len(state.foundations["h"])
        + Len(state.foundations["d"]) + Len(state.foundations["c"])
  IN totalFoundationCards = DeckSize

\* The suit key of the foundation the card goes to, or "" (null).
canMoveToFoundation(card, foundations) ==
  LET suitKey == IF card.suit = "spades" THEN "s"
                 ELSE IF card.suit = "hearts" THEN "h"
                 ELSE IF card.suit = "diamonds" THEN "d" ELSE "c"
      expectedRank == Len(foundations[suitKey]) + 1
  IN IF card.rank = expectedRank THEN suitKey ELSE ""

solverCanPlaceOnTableau(cardToPlace, targetCard) ==
  cardToPlace.rank = targetCard.rank - 1 /\ cardToPlace.color # targetCard.color

isValidSequence(cardStrs) ==
  \A i \in 2..Len(cardStrs) :
    solverCanPlaceOnTableau(parseCard(cardStrs[i]), parseCard(cardStrs[i - 1]))

RankName(rank) ==
  CASE rank = 1 -> "A"
    [] rank = 11 -> "J"
    [] rank = 12 -> "Q"
    [] rank = 13 -> "K"
    [] OTHER -> ToString(rank)

\* `${rankName}${card.suit}`
formatCard(card) == <<RankName(card.rank), card.suit>>

\* cards.filter(card => card.endsWith('1'))
FaceUpCards(cards) == SelectSeq(cards, LAMBDA c : c[3] = "1")

\* lastCard.slice(0, -1) + '1'
TokenFaceUp(cardStr) == <<cardStr[1], cardStr[2], "1">>

\* "Flip hidden card if revealed" on tableau index of newState
FlipRevealed(state, index) ==
  LET cards == state.tableaux[index]
  IN IF Len(cards) > 0 /\ cards[Len(cards)][3] = "0"
     THEN [state EXCEPT !.tableaux[index][Len(cards)] = TokenFaceUp(cards[Len(cards)])]
     ELSE state

Pop(cards) == SubSeq(cards, 1, Len(cards) - 1)

SolverMove(move, from, to, card, newState) ==
  [move |-> move, from |-> from, to |-> to, card |-> card, newState |-> newState]

\* Flattens a sequence of sequences (moves.push(...part) in order).
RECURSIVE Flatten(_)
Flatten(seqs) == IF Len(seqs) = 0 THEN <<>> ELSE Head(seqs) \o Flatten(Tail(seqs))

getFoundationMoves(state) ==
  LET waste == state.waste
      wasteMoves ==
        IF Len(waste) > 0
        THEN LET topWasteCard == parseCard(waste[Len(waste)])
                 suit == canMoveToFoundation(topWasteCard, state.foundations)
             IN IF suit # ""
                THEN <<SolverMove("waste_to_foundation", "waste", SolverFoundationId[suit],
                         formatCard(topWasteCard),
                         [state EXCEPT !.waste = Pop(waste),
                                       !.foundations[suit] = @ \o <<waste[Len(waste)]>>])>>
                ELSE <<>>
        ELSE <<>>
      tableauMove(index) ==
        LET cards == state.tableaux[index]
            faceUpCards == FaceUpCards(cards)
        IN IF Len(faceUpCards) > 0
           THEN LET topCard == parseCard(faceUpCards[Len(faceUpCards)])
                    suit == canMoveToFoundation(topCard, state.foundations)
                IN IF suit # ""
                   THEN <<SolverMove("tableau_to_foundation", TableauName[index],
                            SolverFoundationId[suit], formatCard(topCard),
                            FlipRevealed([state EXCEPT !.tableaux[index] = Pop(cards),
                                                       !.foundations[suit] = @ \o <<cards[Len(cards)]>>],
                                         index))>>
                   ELSE <<>>
           ELSE <<>>
  IN wasteMoves \o Flatten([index \in 1..Len(state.tableaux) |-> tableauMove(index)])

\* newState.tableaux[fromIndex].splice(-seqLength, seqLength), push onto
\* toIndex, flip the revealed card of fromIndex.
MoveSequence(state, fromIndex, toIndex, seqLength) ==
  LET fromCards == state.tableaux[fromIndex]
      cut == IF seqLength > Len(fromCards) THEN Len(fromCards) ELSE seqLength
      movedCards == SubSeq(fromCards, Len(fromCards) - cut + 1, Len(fromCards))
      moved == [state EXCEPT !.tableaux[fromIndex] = SubSeq(fromCards, 1, Len(fromCards) - cut),
                             !.tableaux[toIndex] = @ \o movedCards]
  IN FlipRevealed(moved, fromIndex)

getTableauMoves(state) ==
  LET movesTo(fromIndex, seqLength, bottomCard, toIndex) ==
        IF fromIndex = toIndex THEN <<>>
        ELSE LET toFaceUpCards == FaceUpCards(state.tableaux[toIndex])
                 move == SolverMove("tableau_to_tableau", TableauName[fromIndex],
                           TableauName[toIndex], formatCard(bottomCard),
                           MoveSequence(state, fromIndex, toIndex, seqLength))
             IN IF Len(toFaceUpCards) = 0
                THEN IF bottomCard.rank = KingRank THEN <<move>> ELSE <<>>
                ELSE IF solverCanPlaceOnTableau(bottomCard,
                          parseCard(toFaceUpCards[Len(toFaceUpCards)]))
                     THEN <<move>> ELSE <<>>
      movesOfLength(fromIndex, faceUpCards, seqLength) ==
        LET sequence == SubSeq(faceUpCards, Len(faceUpCards) - seqLength + 1, Len(faceUpCards))
        IN IF isValidSequence(sequence)
           THEN Flatten([toIndex \in 1..Len(state.tableaux) |->
                           movesTo(fromIndex, seqLength, parseCard(sequence[1]), toIndex)])
           ELSE <<>>
      movesFrom(fromIndex) ==
        LET faceUpCards == FaceUpCards(state.tableaux[fromIndex])
        IN Flatten([seqLength \in 1..Min(Len(faceUpCards), MaxRank) |->
                      movesOfLength(fromIndex, faceUpCards, seqLength)])
  IN Flatten([fromIndex \in 1..Len(state.tableaux) |-> movesFrom(fromIndex)])

getWasteMoves(state) ==
  LET waste == state.waste
  IN IF Len(waste) = 0 THEN <<>>
     ELSE LET topWasteCard == parseCard(waste[Len(waste)])
              moveTo(index) ==
                LET faceUpCards == FaceUpCards(state.tableaux[index])
                    move == SolverMove("waste_to_tableau", "waste", TableauName[index],
                              formatCard(topWasteCard),
                              [state EXCEPT !.waste = Pop(waste),
                                            !.tableaux[index] = @ \o <<waste[Len(waste)]>>])
                IN IF Len(faceUpCards) = 0
                   THEN IF topWasteCard.rank = KingRank THEN <<move>> ELSE <<>>
                   ELSE IF solverCanPlaceOnTableau(topWasteCard,
                             parseCard(faceUpCards[Len(faceUpCards)]))
                        THEN <<move>> ELSE <<>>
          IN Flatten([index \in 1..Len(state.tableaux) |-> moveTo(index)])

\* The loop of getStockMove: pop a card off the end of stock, face it up,
\* push it on waste, drawMode times or until stock is empty.
RECURSIVE drawLoop(_, _, _)
drawLoop(state, i, drawMode) ==
  IF i < drawMode /\ Len(state.stock) > 0
  THEN LET card == state.stock[Len(state.stock)]
           faceUpCard == IF card[3] = "0" THEN TokenFaceUp(card) ELSE card
       IN drawLoop([state EXCEPT !.stock = Pop(state.stock), !.waste = @ \o <<faceUpCard>>],
                   i + 1, drawMode)
  ELSE state

\* <<>> (null) when stock is empty, else the one draw_stock move.
getStockMove(state) ==
  IF Len(state.stock) = 0 THEN <<>>
  ELSE <<SolverMove("draw_stock", "stock", "waste", "stock",
           drawLoop(state, 0, state.drawMode))>>

\* timedOut: Date.now() - startTime > maxTime at this call.
getAllPossibleMoves(state, timedOut) ==
  IF timedOut THEN <<>>
  ELSE getFoundationMoves(state) \o getTableauMoves(state)
       \o getWasteMoves(state) \o getStockMove(state)

IsFoundationMove(m) == m.move = "waste_to_foundation" \/ m.move = "tableau_to_foundation"

\* moves.sort(...) putting the moves from the Waste before all others.
sortMovesWasteFirst(moves) ==
  SelectSeq(moves, LAMBDA m : m.from = "waste")
  \o SelectSeq(moves, LAMBDA m : m.from # "waste")

\* moves.sort(...): foundation moves first, draw_stock last, the others
\* between, each group in its generated order (the sort is stable).
sortMoves(moves) ==
  SelectSeq(moves, IsFoundationMove)
  \o SelectSeq(moves, LAMBDA m : ~IsFoundationMove(m) /\ m.move # "draw_stock")
  \o SelectSeq(moves, LAMBDA m : m.move = "draw_stock")

PathStep(m, path) ==
  [move |-> m.move, from |-> m.from, to |-> m.to, card |-> m.card, moveNumber |-> Len(path) + 1]

Max(a, b) == IF a > b THEN a ELSE b

\* The search.  clock is Date.now() - startTime at the call, with callTime
\* milliseconds taken by every call of dfs; depthCap is the maxDepth that
\* dfs reads from solveGameCompletely.  The result carries the visited set
\* and the clock on to the next sibling, and records the greatest depth at
\* which dfs was called (deepest) and the latest clock at which a node was
\* expanded (expandedAt, -1 if none was), the number of calls of
\* getAllPossibleMoves (generations) and the number of calls of dfs that met
\* a state of the visited set (revisits).
RECURSIVE dfs(_, _, _, _, _, _, _)
RECURSIVE dfsMoves(_, _, _, _, _, _, _, _)

\* dfs, were it to look for a win before it looks at the depth.
dfsWonBeforeDepth(state, depth, path, visited, clock, callTime, depthCap) ==
  LET notFound == [found |-> FALSE, sequence |-> <<>>, visited |-> visited,
                   clock |-> clock + callTime, deepest |-> depth, expandedAt |-> -1,
                   generations |-> 0, revisits |-> 0]
  IN IF clock > maxTime THEN notFound
     ELSE IF isGameWon(state)
          THEN [notFound EXCEPT !.found = TRUE, !.sequence = path]
     ELSE IF depth > depthCap THEN notFound
     ELSE IF state \in visited THEN [notFound EXCEPT !.revisits = 1]
     ELSE LET below == dfsMoves(sortMoves(getAllPossibleMoves(state, clock > maxTime)), 1,
                                depth, path, visited \cup {state}, clock + callTime,
                                callTime, depthCap)
          IN [below EXCEPT !.deepest = Max(depth, below.deepest),
                           !.expandedAt = Max(clock, below.expandedAt),
                           !.generations = below.generations + 1]

dfs(state, depth, path, visited, clock, callTime, depthCap) ==
  LET notFound == [found |-> FALSE, sequence |-> <<>>, visited |-> visited,
                   clock |-> clock + callTime, deepest |-> depth, expandedAt |-> -1,
                   generations |-> 0, revisits |-> 0]
  IN IF clock > maxTime THEN notFound
     ELSE IF depth > depthCap THEN notFound
     ELSE IF isGameWon(state)
          THEN [notFound EXCEPT !.found = TRUE, !.sequence = path]
     ELSE IF state \in visited THEN [notFound EXCEPT !.revisits = 1]
     ELSE LET below == dfsMoves(sortMoves(getAllPossibleMoves(state, clock > maxTime)), 1,
                                depth, path, visited \cup {state}, clock + callTime,
                                callTime, depthCap)
          IN [below EXCEPT !.deepest = Max(depth, below.deepest),
                           !.expandedAt = Max(clock, below.expandedAt),
                           !.generations = below.generations + 1]

\* The loop over the children, were every child searched with the visited
\* set the loop started with.
dfsMovesForgetful(moves, i, depth, path, visited, clock, callTime, depthCap) ==
  IF i > Len(moves)
  THEN [found |-> FALSE, sequence |-> <<>>, visited |-> visited, clock |-> clock,
        deepest |-> depth, expandedAt |-> -1, generations |-> 0, revisits |-> 0]
  ELSE LET result == dfs(moves[i].newState, depth + 1, Append(path, PathStep(moves[i], path)),
                         visited, clock, callTime, depthCap)
       IN IF result.found THEN result
          ELSE LET rest == dfsMoves(moves, i + 1, depth, path, visited, result.clock,
                                    callTime, depthCap)
               IN [rest EXCEPT !.deepest = Max(result.deepest, rest.deepest),
                               !.expandedAt = Max(result.expandedAt, rest.expandedAt),
                               !.generations = result.generations + rest.generations,
                               !.revisits = result.revisits + rest.revisits]

dfsMoves(moves, i, depth, path, visited, clock, callTime, depthCap) ==
  IF i > Len(moves)
  THEN [found |-> FALSE, sequence |-> <<>>, visited |-> visited, clock |-> clock,
        deepest |-> depth, expandedAt |-> -1, generations |-> 0, revisits |-> 0]
  ELSE \* for (const move of moves) { const result = dfs(...); if (result.found) return result; }
       LET result == dfs(moves[i].newState, depth + 1, Append(path, PathStep(moves[i], path)),
                         visited, clock, callTime, depthCap)
       IN IF result.found THEN result
          ELSE LET rest == dfsMoves(moves, i + 1, depth, path, result.visited, result.clock,
                                    callTime, depthCap)
               IN [rest EXCEPT !.deepest = Max(result.deepest, rest.deepest),
                               !.expandedAt = Max(result.expandedAt, rest.expandedAt),
                               !.generations = result.generations + rest.generations,
                               !.revisits = result.revisits + rest.revisits]

\* The visited set of an earlier invocation, were the set kept by the
\* module and not made anew by each call.
visitedKept(left) == left

\* const visited = new Set<string>(): the set a call of
\* solveGameCompletely starts its search with, whatever set (left) the
\* invocations before it ended with.
newVisited(left) == {}

\* solveGameCompletely(initialState) on a machine where a call of dfs takes
\* callTime milliseconds, after invocations that ended with the visited set
\* left.  timedOut: some call of dfs found the deadline passed.
solveGameCompletelyAfter(initialState, callTime, left) ==
  LET result == dfs(initialState, 0, <<>>, newVisited(left), 0, callTime, maxDepth)
  IN [found |-> result.found,
      sequence |-> result.sequence,
      timeSpent |-> result.clock,
      timedOut |-> result.clock > maxTime + callTime,
      deepest |-> result.deepest,
      expandedAt |-> result.expandedAt,
      generations |-> result.generations,
      revisits |-> result.revisits,
      visitedSize |-> Cardinality(result.visited)]

\* The first invocation of the process.
solveGameCompletely(initialState, callTime) ==
  solveGameCompletelyAfter(initialState, callTime, {})

\* ------------------------------------------------- position heuristics
\* Numbers with a fractional part are kept in tenths (estimates) or as
\* multiples of 1/DeckSize (win probability); Math.round is rounding half up.
SuitKey(suit) ==
  IF suit = "spades" THEN "s"
  ELSE IF suit = "hearts" THEN "h"
  ELSE IF suit = "diamonds" THEN "d" ELSE "c"

\* One entry of tableauAnalysis.
AnalyzeTableau(cards) ==
  LET faceUpCards == FaceUpCards(cards)
  IN [totalCards |-> Len(cards),
      faceDownCards |-> Len(SelectSeq(cards, LAMBDA c : c[3] = "0")),
      faceUpCount |-> Len(faceUpCards),
      isEmpty |-> Len(cards) = 0,
      hasTopCard |-> Len(faceUpCards) > 0,
      topCard |-> IF Len(faceUpCards) > 0 THEN parseCard(Last(faceUpCards))
                  ELSE [suit |-> "", rank |-> 0, faceUp |-> FALSE, color |-> ""]]

TableauAnalysis(state) == [k \in 1..NumTableaux |-> AnalyzeTableau(state.tableaux[k])]

countAvailableMoves(state, tableauAnalysis) ==
  LET K == 1..NumTableaux
      toFoundation(card) == card.rank = Len(state.foundations[SuitKey(card.suit)]) + 1
      ontoTableau(card, target) ==
        IF target.isEmpty /\ card.rank = KingRank THEN TRUE
        ELSE /\ target.hasTopCard
             /\ card.rank = target.topCard.rank - 1
             /\ card.color # target.topCard.color
      fromTableauToFoundation ==
        Cardinality({k \in K : tableauAnalysis[k].hasTopCard
                                /\ toFoundation(tableauAnalysis[k].topCard)})
      tableauToTableau ==
        Cardinality({ij \in K \X K :
                       /\ ij[1] # ij[2]
                       /\ tableauAnalysis[ij[1]].hasTopCard
                       /\ ontoTableau(tableauAnalysis[ij[1]].topCard, tableauAnalysis[ij[2]])})
      fromWaste ==
        IF Len(state.waste) = 0 THEN 0
        ELSE LET topWasteCard == parseCard(Last(state.waste))
             IN (IF toFoundation(topWasteCard) THEN 1 ELSE 0)
                + Cardinality({k \in K : ontoTableau(topWasteCard, tableauAnalysis[k])})
  IN fromTableauToFoundation + tableauToTableau + fromWaste

RECURSIVE SumOver(_, _)
SumOver(f, n) == IF n = 0 THEN 0 ELSE f[n] + SumOver(f, n - 1)

TotalFaceUp(tableauAnalysis) ==
  SumOver([k \in 1..NumTableaux |-> tableauAnalysis[k].faceUpCount], NumTableaux)
TotalHidden(tableauAnalysis) ==
  SumOver([k \in 1..NumTableaux |-> tableauAnalysis[k].faceDownCards], NumTableaux)

\* Math.round(x) for x >= 0 given as tenths / hundredths
RoundTenths(x) == (x + 5) \div 10
RoundHundredths(x) == (x + 50) \div 100

\* analyzeOpeningPosition: Math.round(45 + totalHidden * 0.8 ...)
analyzeOpeningPosition(tableauAnalysis, stockCards, availableMoves) ==
  LET base == 450 + TotalHidden(tableauAnalysis) * 8
      byMoves == IF availableMoves >= 3 THEN base - 80
                 ELSE IF availableMoves = 0 THEN base + 150 ELSE base
      byFaceUp == IF TotalFaceUp(tableauAnalysis) >= 10 THEN byMoves - 50 ELSE byMoves
  IN RoundTenths(byFaceUp)

analyzeOpeningWinProbability(tableauAnalysis, stockCards) ==
  LET K == 1..NumTableaux
      acesVisible == Cardinality({k \in K : tableauAnalysis[k].hasTopCard
                                         /\ tableauAnalysis[k].topCard.rank = 1})
      kingsInEmptySpaces == Cardinality({k \in K : tableauAnalysis[k].isEmpty})
      probability == 50 + acesVisible * 15 + kingsInEmptySpaces * 10
                     + (TotalFaceUp(tableauAnalysis) - 7) * 2
                     - (IF stockCards > 35 THEN 10 ELSE 0)
  IN Max(20, Min(80, probability))

\* analyzeSpecificGamePosition(state): estimatedMoves in tenths.
analyzeSpecificGamePosition(state) ==
  LET foundationTotal ==
        Len(state.foundations["s"]) + Len(state.foundations["h"])
        + Len(state.foundations["d"]) + Len(state.foundations["c"])
      tableauAnalysis == TableauAnalysis(state)
      availableMoves == countAvailableMoves(state, tableauAnalysis)
      stockCards == Len(state.stock)
      totalHiddenCards == TotalHidden(tableauAnalysis)
      emptySpaces == Cardinality({k \in 1..NumTableaux : tableauAnalysis[k].isEmpty})
      moves == state.moves
      left == DeckSize - foundationTotal
      \* progressRatio = foundationTotal / 52, compared as cross products
      byPhase ==
        IF moves <= 5
        THEN 10 * analyzeOpeningPosition(tableauAnalysis, stockCards, availableMoves)
        ELSE IF 10 * foundationTotal < DeckSize
        THEN 10 * RoundHundredths(left * 85) + totalHiddenCards * 4
        ELSE IF 10 * foundationTotal < 3 * DeckSize
        THEN 10 * RoundHundredths(left * 75) + Max(0, totalHiddenCards - 10) * 3
        ELSE IF 10 * foundationTotal < 6 * DeckSize
        THEN 10 * RoundHundredths(left * 65) + (IF emptySpaces = 0 THEN 80 ELSE 0)
        ELSE IF 100 * foundationTotal < 85 * DeckSize
        THEN 10 * RoundHundredths(left * 60) + (IF availableMoves < 3 THEN 150 ELSE 50)
        ELSE 10 * RoundHundredths(left * 50) + (IF availableMoves = 0 THEN 250 ELSE 20)
      adjusted ==
        IF availableMoves = 0 /\ stockCards = 0 THEN 9990
        ELSE IF availableMoves >= 5 THEN Max(byPhase - 50, 10 * (moves + 3))
        ELSE IF availableMoves <= 1 THEN byPhase + 100
        ELSE byPhase
      estimatedMoves == Max(10 * (moves + 3), Min(1200, adjusted))
      \* winProbability times DeckSize
      byPosition ==
        60 * DeckSize + availableMoves * 8 * DeckSize + foundationTotal * 25
        - totalHiddenCards * DeckSize + emptySpaces * 12 * DeckSize
        - (IF stockCards > 30 THEN 15 * DeckSize ELSE 0)
        - (IF availableMoves = 0 THEN 30 * DeckSize ELSE 0)
      early == IF moves <= 5
               THEN DeckSize * analyzeOpeningWinProbability(tableauAnalysis, stockCards)
               ELSE byPosition
      winProbability == Max(5 * DeckSize, Min(95 * DeckSize, early))
  IN [isWinnable |-> winProbability > 25 * DeckSize /\ estimatedMoves < 2000,
      estimatedMoves |-> estimatedMoves,
      confidence |-> (2 * winProbability + DeckSize) \div (2 * DeckSize),
      availableMoves |-> availableMoves,
      totalHiddenCards |-> totalHiddenCards,
      emptySpaces |-> emptySpaces]

\* --------------------------------------------------- the solve request
defaultMaxDepth == 30
defaultTimeLimit == 15000

\* The SolverResponse fields the claims read.  optimalMoves is in tenths;
\* hasSequence: the response carries optimalSequence; error is "" when the
\* response has no error field; status is the HTTP status.
createErrorResponse(message) ==
  [isWinnable |-> TRUE, optimalMoves |-> 250, confidence |-> 50,
   aiPowered |-> FALSE, fallback |-> FALSE, error |-> message,
   hasSequence |-> FALSE, optimalSequence |-> <<>>, status |-> 200]

\* performEnhancedLocalGameAnalysis(state) for a state that is not null;
\* solution is what solveGameCompletely(state) returns on this run.
performEnhancedLocalGameAnalysis(state, solution) ==
  IF solution.found
  THEN [isWinnable |-> TRUE, optimalMoves |-> 10 * Len(solution.sequence),
        confidence |-> 95, aiPowered |-> FALSE, fallback |-> FALSE, error |-> "",
        hasSequence |-> TRUE, optimalSequence |-> solution.sequence, status |-> 200]
  ELSE LET analysis == analyzeSpecificGamePosition(state)
       IN [isWinnable |-> analysis.isWinnable, optimalMoves |-> analysis.estimatedMoves,
           confidence |-> analysis.confidence, aiPowered |-> FALSE, fallback |-> FALSE,
           error |-> "", hasSequence |-> FALSE, optimalSequence |-> <<>>, status |-> 200]

\* "Basic validation": the keys POST requires of the parsed state.
\* body.missing names the key the JSON text of body.gameState lacks
\* ("nothing" when it has them all).
HasRequiredKeys(body) == body.missing \notin {"foundations", "stock", "tableaux"}

TotalCards(parsedState) ==
  Len(parsedState.stock) + Len(parsedState.waste)
  + SumOver([k \in 1..NumTableaux |-> Len(parsedState.tableaux[k])], NumTableaux)
  + Len(parsedState.foundations["s"]) + Len(parsedState.foundations["h"])
  + Len(parsedState.foundations["d"]) + Len(parsedState.foundations["c"])

\* The requests that get past the validation of POST and reach the solver.
ReachesSolver(body) == HasRequiredKeys(body) /\ TotalCards(body.gameState) # 0

\* POST(request).  body = { gameState, maxDepth, timeLimit }; openai is what
\* the OpenAI call comes to on this run: "no-key", "error" (the fetch fails,
\* times out after timeLimit or answers without content), "no-json" or
\* "answer" with the parsed aiSolution in openai.answer.
POST(body, openai, solution) ==
  LET parsedState == body.gameState
      localAnalysis == performEnhancedLocalGameAnalysis(parsedState, solution)
  IN IF ~HasRequiredKeys(body)
     THEN [createErrorResponse("No game state available") EXCEPT
             !.error = "Invalid game state - using fallback analysis", !.fallback = TRUE]
     ELSE IF TotalCards(parsedState) = 0
     THEN [createErrorResponse("Empty game state - no cards found") EXCEPT !.status = 400]
     ELSE IF openai.kind = "no-key"
     THEN [localAnalysis EXCEPT !.error = "OpenAI API key not configured", !.fallback = TRUE]
     ELSE IF openai.kind = "error"
     THEN [localAnalysis EXCEPT !.error = "OpenAI request timeout", !.fallback = TRUE]
     ELSE IF openai.kind = "no-json"
     THEN [localAnalysis EXCEPT
             !.optimalMoves = Max(50, Min(1500, localAnalysis.optimalMoves)),
             !.confidence = Max(10, Min(95, localAnalysis.confidence)),
             !.hasSequence = FALSE, !.optimalSequence = <<>>]
     ELSE LET aiSolution == openai.answer
          IN IF aiSolution.optimalMoves < 8 \/ aiSolution.confidence < 10
             THEN [localAnalysis EXCEPT !.hasSequence = FALSE, !.optimalSequence = <<>>]
             ELSE [isWinnable |-> aiSolution.isWinnable,
                   optimalMoves |-> Max(50, Min(1500, 10 * aiSolution.optimalMoves)),
                   confidence |-> Max(10, Min(95, aiSolution.confidence)),
                   aiPowered |-> TRUE, fallback |-> FALSE, error |-> "",
                   hasSequence |-> FALSE, optimalSequence |-> <<>>, status |-> 200]

\* ------------------------------------------------------------------ state
\* gameState: the GameState the caller holds (the store's currentState);
\* deck: the shuffled deck the current game was dealt from;
\* irregular: the number of out-of-the-ordinary Moves applied in this game.
\* solved: the last solve request, what solveGameCompletely did on it and
\* the response of POST, while the caller holds it (a solve request for
\* gameState was the last operation), else NoSolution.
\* ----------------------------------------------------------- autocomplete
autoCompleteMaxMoves == 52

\* default: throw new Error(`Invalid suit: ${suit}`)
getFoundationBySuitThrows(suit) == suit \notin {"spades", "hearts", "diamonds", "clubs"}

getFoundationBySuit(gs, suit) == gs.foundations[suit]

\* findFoundationMoveForCard looking at the hearts foundation for every card.
findFoundationMoveForCardOnHearts(card, gs) ==
  IF canPlaceOnFoundation(card, getFoundationBySuit(gs, "hearts"))
  THEN FoundationName["hearts"]
  ELSE "null"

findFoundationMoveForCard(card, gs) ==
  IF canPlaceOnFoundation(card, getFoundationBySuit(gs, card.suit))
  THEN FoundationName[card.suit]
  ELSE "null"

\* isCardSafeToAutoMove content with one opposite-colour foundation.
isCardSafeToAutoMoveOneFoundation(card, gs) ==
  IF card.rank <= 2 THEN TRUE
  ELSE LET requiredRank == card.rank - 1
           oppositeColors == IF card.suit = "spades" \/ card.suit = "clubs"
                             THEN <<"hearts", "diamonds">> ELSE <<"spades", "clubs">>
       IN \E i \in 1..Len(oppositeColors) :
            LET foundation == getFoundationBySuit(gs, oppositeColors[i])
            IN ~(Len(foundation) = 0 \/ Last(foundation).rank < requiredRank)

isCardSafeToAutoMove(card, gs) ==
  IF card.rank <= 2 THEN TRUE
  ELSE LET requiredRank == card.rank - 1
           oppositeColors == IF card.suit = "spades" \/ card.suit = "clubs"
                             THEN <<"hearts", "diamonds">> ELSE <<"spades", "clubs">>
       IN \A i \in 1..Len(oppositeColors) :
            LET foundation == getFoundationBySuit(gs, oppositeColors[i])
            IN ~(Len(foundation) = 0 \/ Last(foundation).rank < requiredRank)

\* The Move pushed for topCard on the pile `from`, if any (the timestamp is
\* left out).
autoMoveFor(topCard, from, gs) ==
  LET foundationMove == findFoundationMoveForCard(topCard, gs)
  IN IF foundationMove # "null" /\ isCardSafeToAutoMove(topCard, gs)
     THEN <<[from |-> from, to |-> foundationMove, cards |-> <<topCard>>]>>
     ELSE <<>>

findAutocompleteMoves(gs) ==
  (IF Len(gs.waste) > 0 THEN autoMoveFor(Last(gs.waste), "waste", gs) ELSE <<>>)
  \o Flatten([i \in 1..NumTableaux |->
                LET tableau == gs.tableaux[i]
                IN IF Len(tableau) > 0 /\ Last(tableau).faceUp
                   THEN autoMoveFor(Last(tableau), TableauName[i], gs)
                   ELSE <<>>])

\* findAutocompleteMoves throws when getFoundationBySuit meets a suit that
\* is none of the four.
findAutocompleteMovesThrows(gs) ==
  \/ Len(gs.waste) > 0 /\ getFoundationBySuitThrows(Last(gs.waste).suit)
  \/ \E i \in 1..NumTableaux :
       /\ Len(gs.tableaux[i]) > 0 /\ Last(gs.tableaux[i]).faceUp
       /\ getFoundationBySuitThrows(Last(gs.tableaux[i]).suit)

\* The while loop of autoComplete with applied, the moves applied so far,
\* and before, the states they were applied to.  raised: an exception left
\* the function; caught: the catch block ended the loop.
RECURSIVE autoCompleteLoop(_, _, _)

\* The loop of autoComplete with a limit of two moves.
autoCompleteLoopCutShort(currentState, applied, before) ==
  IF ~(Len(applied) < 2)
  THEN [state |-> currentState, applied |-> applied, before |-> before,
        raised |-> FALSE, caught |-> FALSE]
  ELSE LET autoMoves == findAutocompleteMoves(currentState)
       IN IF Len(autoMoves) = 0
          THEN [state |-> currentState, applied |-> applied, before |-> before,
                raised |-> FALSE, caught |-> FALSE]
          ELSE autoCompleteLoop(applyMove(autoMoves[1], currentState).state,
                                Append(applied, autoMoves[1]), Append(before, currentState))

autoCompleteLoop(currentState, applied, before) ==
  IF ~(Len(applied) < autoCompleteMaxMoves)
  THEN [state |-> currentState, applied |-> applied, before |-> before,
        raised |-> FALSE, caught |-> FALSE]
  ELSE IF findAutocompleteMovesThrows(currentState)
  THEN [state |-> currentState, applied |-> applied, before |-> before,
        raised |-> TRUE, caught |-> FALSE]
  ELSE LET autoMoves == findAutocompleteMoves(currentState)
       IN IF Len(autoMoves) = 0
          THEN [state |-> currentState, applied |-> applied, before |-> before,
                raised |-> FALSE, caught |-> FALSE]
          ELSE LET result == applyMove(autoMoves[1], currentState)
               IN IF result.threw
                  THEN [state |-> currentState, applied |-> applied, before |-> before,
                        raised |-> FALSE, caught |-> TRUE]
                  ELSE autoCompleteLoop(result.state, Append(applied, autoMoves[1]),
                                        Append(before, currentState))

autoCompleteRun(gs) == autoCompleteLoop(gs, <<>>, <<>>)

autoComplete(gs) == autoCompleteRun(gs).state

canAutoComplete(gs) == Len(findAutocompleteMoves(gs)) > 0

\* moveHistory: the moveHistory of the store of lib/game-store.ts, which its
\* undo replays; the other callers of the engine leave it alone.
VARIABLES gameState, deck, irregular, solved, moveHistory

\* The fields of the snapshot store (undoStack, redoStack, canUndo, canRedo,
\* gameBaseline, isAnalyzingBaseline) with the timers its newGame has set
\* and the solve requests in flight; game numbers the deals and executed
\* counts the steps of the stored sequence the player has carried out.
\* node is a node of the solver's search.  They are followed in the games
\* of the store and of the search, where histories are bounded.
VARIABLES node, undoStack, redoStack, canUndo, canRedo,
          gameBaseline, isAnalyzingBaseline, timers, requests, game, executed
snapshotVars == <<undoStack, redoStack, canUndo, canRedo>>
baselineVars == <<gameBaseline, isAnalyzingBaseline, timers, requests, game, executed>>
rest == <<node, snapshotVars, baselineVars>>
vars == <<gameState, deck, irregular, solved, moveHistory, rest>>

NoNode == [kind |-> "none"]
NoBaseline == [kind |-> "null"]

\* The store as create() builds it, before any search.
InitRest ==
  /\ node = NoNode
  /\ undoStack = <<>> /\ redoStack = <<>>
  /\ canUndo = FALSE /\ canRedo = FALSE
  /\ gameBaseline = NoBaseline /\ isAnalyzingBaseline = FALSE
  /\ timers = {} /\ requests = {}
  /\ game = 0 /\ executed = 0

NoSolution == [kind |-> "none", found |-> FALSE, sequence |-> <<"none">>]

DrawModes == {1, 3}

Init ==
  \E seed \in 0..MaxSeed, drawMode \in DrawModes :
    /\ deck = createShuffledDeck(seed)
    /\ gameState = dealNewGame(deck, drawMode)
    /\ irregular = 0
    /\ solved = NoSolution
    /\ moveHistory = <<>>
    /\ InitRest

\* --------------------------------------------------------- the Move inputs
TrailingCards(cards, n) == SubSeq(cards, Len(cards) - n + 1, Len(cards))

NextSuit(suit) ==
  CASE suit = "spades" -> "hearts"
    [] suit = "hearts" -> "diamonds"
    [] suit = "diamonds" -> "clubs"
    [] OTHER -> "spades"

\* Card objects of a Move that carry the id of the pile's card and one field
\* that differs from it (a stale or hand-built card object).
ForgedFirst(cards) ==
  IF Len(cards) = 0 THEN {}
  ELSE {[cards EXCEPT ![1].faceUp = ~cards[1].faceUp],
        [cards EXCEPT ![1].suit = NextSuit(cards[1].suit)],
        [cards EXCEPT ![1].rank = (cards[1].rank % MaxRank) + 1]}

HonestCards(fromCards) ==
  {TrailingCards(fromCards, n) : n \in 0..Len(fromCards)}
  \cup (IF Len(fromCards) >= 2 THEN {<<fromCards[1]>>} ELSE {})

\* A face-up run: descending by one, alternating colour.
IsRun(cards) ==
  /\ \A i \in 1..Len(cards) : cards[i].faceUp
  /\ \A i \in 1..(Len(cards) - 1) :
       /\ cards[i].rank = cards[i + 1].rank + 1
       /\ isRed(cards[i].suit) # isRed(cards[i + 1].suit)

\* The moves of ordinary play take the top card of Waste or a face-up run
\* of a tableau, as it lies in the pile, to a tableau or to the foundation of
\* the card's suit.  Every other Move (from Stock or a foundation, onto its
\* own pile, onto another suit's foundation, with a face-down card, or with
\* card objects that differ from the pile's) is out of the ordinary; the
\* model applies at most MaxIrregular of them per game.
IsIrregular(move, gs) ==
  \/ move.cards \notin HonestCards(getPileById(gs, move.from))
  \/ move.from = "stock"
  \/ move.from \in FoundationIds
  \/ move.from = move.to
  \/ ~IsRun(move.cards)
  \/ move.to \in FoundationIds /\ move.to # FoundationName[move.cards[1].suit]

MoveCards(fromCards) ==
  HonestCards(fromCards)
  \cup (IF irregular < MaxIrregular
        THEN UNION {ForgedFirst(TrailingCards(fromCards, n)) : n \in 1..Len(fromCards)}
        ELSE {})

Move(from, to, cards) == [from |-> from, to |-> to, cards |-> cards]

\* ---------------------------------------------------------------- actions
\* The caller replaces its state by the state drawFromStock returns.
DrawFromStock ==
  /\ gameState' = drawFromStock(gameState)
  /\ solved' = NoSolution
  /\ UNCHANGED <<deck, irregular, moveHistory>>
  /\ UNCHANGED rest

\* Ordinary games are played up to MaxMoves moves; a game with a Move out of
\* the ordinary has at most MaxIrregular of them and MaxIrregularMoves moves.
Budget(move) ==
  /\ gameState.moves < MaxMoves
  /\ IsIrregular(move, gameState) => irregular < MaxIrregular
  /\ (irregular > 0 \/ IsIrregular(move, gameState)) => gameState.moves < MaxIrregularMoves

Count(move) == IF IsIrregular(move, gameState) THEN irregular + 1 ELSE irregular

\* A caller of applyMove (autoComplete) with a move applyMove accepts: it
\* keeps the returned state.
ApplyMoveAccepted ==
  \E f \in PileIds :
    \E c \in MoveCards(getPileById(gameState, f)), t \in PileIds :
      LET move == Move(f, t, c)
          r == applyMove(move, gameState)
      IN /\ ~r.threw
         /\ Budget(move)
         /\ gameState' = r.state
         /\ irregular' = Count(move)
         /\ solved' = NoSolution
         /\ UNCHANGED <<deck, moveHistory>>
         /\ UNCHANGED rest

\* applyMove throws: the caller catches the error and keeps its state.
ApplyMoveThrows ==
  /\ ~(\A f \in PileIds :
         \A c \in MoveCards(getPileById(gameState, f)), t \in PileIds :
           ~applyMove(Move(f, t, c), gameState).threw)
  /\ UNCHANGED vars

\* The store's makeMove with a Move the board built from cards picked from a
\* pile: on success currentState becomes result.state.
MakeMoveSucceeds ==
  \E f \in PileIds :
    \E c \in HonestCards(getPileById(gameState, f)), t \in PileIds :
      LET move == Move(f, t, c)
          r == makeMove(gameState, move)
      IN /\ r.success
         /\ Budget(move)
         /\ gameState' = r.state
         /\ irregular' = Count(move)
         /\ solved' = NoSolution
         /\ UNCHANGED <<deck, moveHistory>>
         /\ UNCHANGED rest

\* makeMove reports { success: false }: currentState stays.
MakeMoveFails ==
  /\ ~(\A f \in PileIds :
         \A c \in HonestCards(getPileById(gameState, f)), t \in PileIds :
           makeMove(gameState, Move(f, t, c)).success)
  /\ UNCHANGED vars

\* newGame / initGame: a fresh deal with the same draw mode.
NewGame ==
  \E seed \in 0..MaxSeed :
    /\ deck' = createShuffledDeck(seed)
    /\ gameState' = dealNewGame(deck', gameState.drawMode)
    /\ irregular' = 0
    /\ solved' = NoSolution
    /\ UNCHANGED moveHistory
    /\ UNCHANGED rest

\* The serialized states a client can send for gs: the store's own
\* ("current"), the same with a long game's moves counter ("long-game"),
\* one with a card lost ("card-missing"), one with every pile empty
\* ("empty"), and JSON lacking a key ("no-stock", "no-foundations",
\* "no-tableaux"; the fields of the lacking key are then not read).
RequestKinds ==
  {"current", "long-game", "card-missing", "empty", "no-stock", "no-foundations", "no-tableaux"}

MissingKey(kind) ==
  CASE kind = "no-stock" -> "stock"
    [] kind = "no-foundations" -> "foundations"
    [] kind = "no-tableaux" -> "tableaux"
    [] OTHER -> "nothing"

RequestState(kind, gs) ==
  LET data == serializeGameState(gs)
  IN CASE kind = "long-game" -> [data EXCEPT !.moves = LongGame]
       [] kind = "card-missing" ->
            IF Len(data.stock) > 0 THEN [data EXCEPT !.stock = Pop(data.stock)]
            ELSE [data EXCEPT !.waste = Pop(data.waste)]
       [] kind = "empty" ->
            [data EXCEPT !.stock = <<>>, !.waste = <<>>,
                         !.foundations = [s |-> <<>>, h |-> <<>>, d |-> <<>>, c |-> <<>>],
                         !.tableaux = SubSeq([k \in 1..NumTableaux |-> <<>>], 1, NumTableaux)]
       [] OTHER -> data

\* The maxDepth and timeLimit a request carries (absent: the defaults).
RequestBounds ==
  {[maxDepth |-> defaultMaxDepth, timeLimit |-> defaultTimeLimit],
   [maxDepth |-> ShallowDepth, timeLimit |-> ShortLimit]}

NoAnswer == [isWinnable |-> FALSE, optimalMoves |-> 0, confidence |-> 0]

OpenAI ==
  {[kind |-> "no-key", answer |-> NoAnswer],
   [kind |-> "error", answer |-> NoAnswer],
   [kind |-> "no-json", answer |-> NoAnswer],
   [kind |-> "answer", answer |-> [isWinnable |-> TRUE, optimalMoves |-> 40, confidence |-> 70]],
   [kind |-> "answer", answer |-> [isWinnable |-> FALSE, optimalMoves |-> 3, confidence |-> 99]]}

\* The visited sets the invocations before a request can have ended
\* with: none was made (or none expanded a node), or the same state was
\* searched before.
LeftBehind(kind, gs) ==
  IF kind = "current" THEN {{}, {RequestState(kind, gs)}} ELSE {{}}

NotRun ==
  [found |-> FALSE, sequence |-> <<>>, timeSpent |-> 0, timedOut |-> FALSE,
   deepest |-> -1, expandedAt |-> -1, generations |-> 0, revisits |-> 0, visitedSize |-> 0]

\* A solve request for the current state (the store asks for every new
\* game, the solver panel on demand): POST validates the state and, if it
\* passes, performEnhancedLocalGameAnalysis runs solveGameCompletely on it.
\* callTime is the time a call of dfs takes on this run and left the visited
\* set the invocations before this one ended with.  solved keeps the
\* request, what the solver did (NotRun if it did not run) and the response.
SolveGame ==
  /\ gameState.moves <= MaxSolvedMoves
  /\ \E kind \in RequestKinds, callTime \in {SlowCall, FastCall} :
    \E state \in {RequestState(kind, gameState)}, left \in LeftBehind(kind, gameState) :
      \E solution \in {IF MissingKey(kind) = "nothing" /\ TotalCards(state) # 0
                       THEN solveGameCompletelyAfter(state, callTime, left) ELSE NotRun} :
        \E bounds \in RequestBounds, openai \in OpenAI :
          LET body == [gameState |-> state, missing |-> MissingKey(kind),
                       maxDepth |-> bounds.maxDepth, timeLimit |-> bounds.timeLimit]
          IN /\ solved' = [kind |-> kind, found |-> solution.found,
                           sequence |-> solution.sequence, solution |-> solution,
                           ran |-> ReachesSolver(body),
                           callTime |-> IF ReachesSolver(body) THEN callTime ELSE 0,
                           body |-> body, openai |-> openai,
                           response |-> POST(body, openai, solution)]
             /\ UNCHANGED <<gameState, deck, irregular, moveHistory>>
             /\ UNCHANGED rest

Next ==
  \/ DrawFromStock
  \/ ApplyMoveAccepted
  \/ ApplyMoveThrows
  \/ MakeMoveSucceeds
  \/ MakeMoveFails
  \/ NewGame

Spec == Init /\ [][Next]_vars

\* ------------------------------------------------------ the solver panel
\* Solve requests for the positions of a game before its first move: fresh
\* deals and the draws from them.
NextSolve ==
  \/ DrawFromStock
  \/ NewGame
  \/ SolveGame

SpecSolve == Init /\ [][NextSolve]_vars

\* ------------------------------------------------------- the dealer alone
\* Deals of decks shuffled from the random streams 0..MaxDealSeed.
InitDeal ==
  \E seed \in 0..MaxDealSeed, drawMode \in DrawModes :
    /\ deck = createShuffledDeck(seed)
    /\ gameState = dealNewGame(deck, drawMode)
    /\ irregular = 0
    /\ solved = NoSolution
    /\ moveHistory = <<>>
    /\ InitRest

\* resetGame(drawMode): the game is replaced by a fresh deal.
ResetGame ==
  \E seed \in 0..MaxDealSeed, drawMode \in DrawModes :
    /\ deck' = createShuffledDeck(seed)
    /\ gameState' = resetGame(seed, drawMode)
    /\ UNCHANGED <<irregular, solved, moveHistory>>
    /\ UNCHANGED rest

NextDeal == ResetGame

SpecDeal == InitDeal /\ [][NextDeal]_vars

\* ------------------------------------------------- the opening of a game
\* The first MaxOpeningMoves moves of every deal 0..MaxDealSeed, with the
\* draws from the dealt Stock (no recycling).
OpeningDraw ==
  /\ gameState.moves < MaxOpeningMoves
  /\ Len(gameState.stock) > 0
  /\ DrawFromStock

OpeningMove ==
  /\ gameState.moves < MaxOpeningMoves
  /\ ApplyMoveAccepted

NextOpening == OpeningDraw \/ OpeningMove

SpecOpening == InitDeal /\ [][NextOpening]_vars

\* ------------------------------------------ the store of lib/game-store.ts
\* Games of up to MaxHistory moves played through the store's makeMove,
\* drawCards, undo and newGame.
TheStore == [currentState |-> gameState, moveHistory |-> moveHistory]

StoreMakeMove ==
  \E f \in PileIds :
    \E c \in HonestCards(getPileById(gameState, f)), t \in PileIds :
      \E made \in {storeMakeMove(TheStore, Move(f, t, c))} :
        /\ made.returned
        /\ Len(moveHistory) < MaxHistory
        /\ Budget(Move(f, t, c))
        /\ gameState' = made.store.currentState
        /\ moveHistory' = made.store.moveHistory
        /\ irregular' = Count(Move(f, t, c))
        /\ UNCHANGED <<deck, solved>>
        /\ UNCHANGED rest

StoreDrawCards ==
  /\ Len(gameState.stock) + Len(gameState.waste) > 0
  /\ gameState' = drawCards(gameState)
  /\ UNCHANGED <<deck, irregular, solved, moveHistory>>
  /\ UNCHANGED rest

StoreUndo ==
  \E seed \in 0..MaxSeed :
    \E undone \in {undo(TheStore, seed)} :
      /\ Len(moveHistory) > 0
      /\ deck' = createShuffledDeck(seed)
      /\ gameState' = undone.currentState
      /\ moveHistory' = undone.moveHistory
      /\ irregular' = 0
      /\ UNCHANGED solved
      /\ UNCHANGED rest

StoreNewGame ==
  \E seed \in 0..MaxSeed :
    /\ deck' = createShuffledDeck(seed)
    /\ gameState' = dealNewGame(deck', gameState.drawMode)
    /\ moveHistory' = <<>>
    /\ irregular' = 0
    /\ UNCHANGED solved
    /\ UNCHANGED rest

NextStore ==
  \/ StoreMakeMove
  \/ StoreDrawCards
  \/ StoreUndo
  \/ StoreNewGame

SpecStore == Init /\ [][NextStore]_vars

\* ----------------------------------------------------------- autocomplete
\* Positions of a deck of the ranks 1..AutoRanks: each foundation holds the
\* first cards of its suit; of the other cards, taken in deck order from
\* any starting point, the first is tableau-1, the next two are tableau-2
\* and so on (face-down under a face-up top card), up to AutoWaste are the
\* Waste and the rest is the Stock.  From there the game is drawn and auto-completed.
AutoCard(suit, rank, faceUp) ==
  [id |-> CardId(suit, rank), suit |-> suit, rank |-> rank, faceUp |-> faceUp]

AutoDeck ==
  [k \in 1..(Len(SUITS) * AutoRanks) |->
     AutoCard(SUITS[((k - 1) \div AutoRanks) + 1], ((k - 1) % AutoRanks) + 1, FALSE)]

Rotate(cards, k) ==
  SubSeq(cards, k + 1, Len(cards)) \o SubSeq(cards, 1, k)

Slice(cards, first, last) == SubSeq(cards, first, Min(last, Len(cards)))

FaceAll(cards, faceUp) == [i \in 1..Len(cards) |-> flipCard(cards[i], faceUp)]

\* A tableau of the given cards with its top card face-up.
TopUp(cards) ==
  [i \in 1..Len(cards) |-> flipCard(cards[i], i = Len(cards))]

AutoPosition(height, k, wasteSize, drawMode) ==
  LET off == LET Off(card) == card.rank > height[card.suit]
             IN Rotate(SelectSeq(AutoDeck, Off), k)
  IN [stock |-> FaceAll(Slice(off, TableauCardCount + 1 + wasteSize, Len(off)), FALSE),
      waste |-> FaceAll(Slice(off, TableauCardCount + 1, TableauCardCount + wasteSize), TRUE),
      foundations |-> [s \in SuitSet |-> [r \in 1..height[s] |-> AutoCard(s, r, TRUE)]],
      tableaux |-> [i \in 1..NumTableaux |->
                     TopUp(Slice(off, (i * (i - 1)) \div 2 + 1, (i * (i + 1)) \div 2))],
      drawMode |-> drawMode, moves |-> 0, score |-> 0, isComplete |-> FALSE]

InitAuto ==
  \E height \in [SuitSet -> 0..AutoRanks], wasteSize \in 0..AutoWaste, drawMode \in DrawModes :
    \E k \in 0..Max(Len(SUITS) * AutoRanks
                       - SumOver([i \in 1..Len(SUITS) |-> height[SUITS[i]]], Len(SUITS)) - 1, 0) :
      /\ gameState = AutoPosition(height, k, wasteSize, drawMode)
      /\ deck = AutoDeck
      /\ irregular = 0
      /\ solved = NoSolution
      /\ moveHistory = <<>>
      /\ InitRest

AutoComplete ==
  /\ canAutoComplete(gameState)
  /\ gameState' = autoComplete(gameState)
  /\ UNCHANGED <<deck, irregular, solved, moveHistory>>
  /\ UNCHANGED rest

AutoDraw ==
  /\ Len(gameState.stock) + Len(gameState.waste) > 0
  /\ gameState' = drawFromStock(gameState)
  /\ UNCHANGED <<deck, irregular, solved, moveHistory>>
  /\ UNCHANGED rest

NextAuto == AutoComplete \/ AutoDraw

SpecAuto == InitAuto /\ [][NextAuto]_vars

\* ------------------------------------------------------ the solver's search
\* The nodes of searches on boards of SearchTableaux tableaux: the root is
\* the serialized deal of a shuffled deck (tableau k holds k cards, the top
\* one face-up, the rest of the deck is the Stock), and from a node the
\* search goes to any of its children.
SearchDeal(seed, drawMode) ==
  LET cards == serializeCards(createShuffledDeck(seed))
      dealt == (SearchTableaux * (SearchTableaux + 1)) \div 2
      pile(k) == SubSeq(cards, (k * (k - 1)) \div 2 + 1, (k * (k + 1)) \div 2)
  IN [stock |-> SubSeq(cards, dealt + 1, Len(cards)),
      waste |-> <<>>,
      foundations |-> [s |-> <<>>, h |-> <<>>, d |-> <<>>, c |-> <<>>],
      tableaux |-> [k \in 1..SearchTableaux |->
                      [pile(k) EXCEPT ![k] = TokenFaceUp(pile(k)[k])]],
      drawMode |-> drawMode,
      moves |-> 0]

InitSearch ==
  \E seed \in 0..MaxSearchSeed, drawMode \in DrawModes :
    /\ deck = createShuffledDeck(seed)
    /\ gameState = dealNewGame(deck, drawMode)
    /\ irregular = 0
    /\ solved = NoSolution
    /\ moveHistory = <<>>
    /\ node = SearchDeal(seed, drawMode)
    /\ undoStack = <<>> /\ redoStack = <<>>
    /\ canUndo = FALSE /\ canRedo = FALSE
    /\ gameBaseline = NoBaseline /\ isAnalyzingBaseline = FALSE
    /\ timers = {} /\ requests = {}
    /\ game = 0 /\ executed = 0

\* for (const move of moves) { dfs(move.newState, ...) }
Descend ==
  \E children \in {sortMoves(getAllPossibleMoves(node, FALSE))} :
    \E i \in 1..Len(children) :
      /\ node' = children[i].newState
      /\ UNCHANGED <<gameState, deck, irregular, solved, moveHistory,
                     snapshotVars, baselineVars>>

NextSearch == Descend

SpecSearch == InitSearch /\ [][NextSearch]_vars

\* ------------------------------------------- the store with state snapshots
\* The store that keeps undoStack and redoStack of whole states, with the
\* flags canUndo and canRedo next to them.
autoCompleteGameMaxAttempts == 100

\* The Move autoCompleteGame builds for the top card of pile pileId.
TopCardMove(currentState, pileId) ==
  LET cards == getPileById(currentState, pileId)
  IN Move(pileId, FoundationName[cards[Len(cards)].suit], <<cards[Len(cards)]>>)

\* The tableaux whose face-up top card makeMove accepts on its foundation.
TableauxToComplete(currentState) ==
  {i \in 1..NumTableaux :
     LET cards == currentState.tableaux[i]
     IN /\ Len(cards) > 0
        /\ cards[Len(cards)].faceUp
        /\ makeMove(currentState, TopCardMove(currentState, TableauName[i])).success}

\* The while loop of autoCompleteGame: the first tableau whose top card
\* moves, else the Waste top card, until nothing moves.
RECURSIVE autoCompleteGameLoop(_, _, _)
autoCompleteGameLoop(currentState, movesMade, maxAttempts) ==
  IF ~(maxAttempts > 0) THEN [currentState |-> currentState, movesMade |-> movesMade]
  ELSE LET found == TableauxToComplete(currentState)
       IN IF found # {}
          THEN LET i == CHOOSE k \in found : \A other \in found : k <= other
               IN autoCompleteGameLoop(
                    makeMove(currentState, TopCardMove(currentState, TableauName[i])).state,
                    movesMade + 1, maxAttempts - 1)
          ELSE IF Len(currentState.waste) > 0
                  /\ makeMove(currentState, TopCardMove(currentState, "waste")).success
               THEN autoCompleteGameLoop(
                      makeMove(currentState, TopCardMove(currentState, "waste")).state,
                      movesMade + 1, maxAttempts - 1)
               ELSE [currentState |-> currentState, movesMade |-> movesMade]

autoCompleteGame(currentState) ==
  autoCompleteGameLoop(currentState, 0, autoCompleteGameMaxAttempts)

\* newGame / startNewGame: a fresh deal, empty stacks, no baseline, and the
\* timer that will call analyzeInitialGameState.
SnapshotNewGame ==
  /\ game < MaxGames
  /\ \E seed \in 0..MaxSnapshotSeed, drawMode \in DrawModes :
       /\ deck' = createShuffledDeck(seed)
       /\ gameState' = dealNewGame(deck', drawMode)
  /\ moveHistory' = <<>>
  /\ undoStack' = <<>> /\ redoStack' = <<>>
  /\ canUndo' = FALSE /\ canRedo' = FALSE
  /\ gameBaseline' = NoBaseline /\ isAnalyzingBaseline' = FALSE
  /\ game' = game + 1
  /\ timers' = timers \cup {game'}
  /\ irregular' = 0 /\ executed' = 0
  /\ UNCHANGED <<solved, node, requests>>

SnapshotMakeMove ==
  \E f \in PileIds :
    \E c \in HonestCards(getPileById(gameState, f)), t \in PileIds :
      \E result \in {makeMove(gameState, Move(f, t, c))} :
        /\ result.success
        /\ Len(undoStack) < MaxSnapshots
        /\ Len(moveHistory) < MaxHistory
        /\ Budget(Move(f, t, c))
        /\ gameState' = result.state
        /\ moveHistory' = Append(moveHistory, Move(f, t, c))
        /\ undoStack' = Append(undoStack, gameState)
        /\ redoStack' = <<>>
        /\ canUndo' = TRUE /\ canRedo' = FALSE
        /\ irregular' = Count(Move(f, t, c))
        /\ UNCHANGED <<deck, solved, node, baselineVars>>

SnapshotUndo ==
  /\ Len(undoStack) # 0
  /\ gameState' = undoStack[Len(undoStack)]
  /\ undoStack' = SubSeq(undoStack, 1, Len(undoStack) - 1)
  /\ redoStack' = <<gameState>> \o redoStack
  /\ canUndo' = (Len(undoStack') > 0)
  /\ canRedo' = TRUE
  /\ UNCHANGED <<deck, irregular, solved, moveHistory, node, baselineVars>>

SnapshotRedo ==
  /\ Len(redoStack) # 0
  /\ gameState' = redoStack[1]
  /\ undoStack' = Append(undoStack, gameState)
  /\ redoStack' = Tail(redoStack)
  /\ canUndo' = TRUE
  /\ canRedo' = (Len(redoStack') > 0)
  /\ UNCHANGED <<deck, irregular, solved, moveHistory, node, baselineVars>>

SnapshotDrawCards ==
  /\ Len(undoStack) < MaxSnapshots
  /\ gameState' = drawFromStock(gameState)
  /\ undoStack' = Append(undoStack, gameState)
  /\ redoStack' = <<>>
  /\ canUndo' = TRUE /\ canRedo' = FALSE
  /\ UNCHANGED <<deck, irregular, solved, moveHistory, node, baselineVars>>

SnapshotAutoCompleteGame ==
  \E done \in {autoCompleteGame(gameState)} :
    /\ done.movesMade > 0
    /\ gameState' = done.currentState
    /\ canUndo' = TRUE
    /\ UNCHANGED <<undoStack, redoStack, canRedo>>
    /\ UNCHANGED <<deck, irregular, solved, moveHistory, node, baselineVars>>

NextSnapshot ==
  \/ SnapshotNewGame
  \/ SnapshotMakeMove
  \/ SnapshotUndo
  \/ SnapshotRedo
  \/ SnapshotDrawCards
  \/ SnapshotAutoCompleteGame

\* The store as created: currentState is initGame(), nothing else is set.
InitSnapshot ==
  \E seed \in 0..MaxSnapshotSeed, drawMode \in DrawModes :
    /\ deck = createShuffledDeck(seed)
    /\ gameState = dealNewGame(deck, drawMode)
    /\ irregular = 0
    /\ solved = NoSolution
    /\ moveHistory = <<>>
    /\ InitRest

SpecSnapshot == InitSnapshot /\ [][NextSnapshot]_vars

\* ---------------------------------------------- the baseline of a game
\* The timer set by newGame calls analyzeInitialGameState; the analysis
\* posts the serialized currentState to the solve route and the response,
\* when it arrives, becomes gameBaseline.  A baseline is kept as the request
\* it answers: its fields are a function of the state that was sent.
AnalysisRequest(timer) ==
  [timer |-> timer, game |-> game, gameState |-> serializeGameState(gameState)]

\* The request body analyzeInitialGameState posts.
AnalysisBody(request) ==
  [gameState |-> request.gameState, missing |-> "nothing",
   maxDepth |-> 30, timeLimit |-> 10000]

\* The baseline built from the route's response to request; game and
\* gameState record which request the response answers.
Baseline(request, response) ==
  [kind |-> "baseline", game |-> request.game, gameState |-> request.gameState,
   optimalMoves |-> response.optimalMoves, confidence |-> response.confidence,
   isWinnable |-> response.isWinnable, optimalSequence |-> response.optimalSequence]

\* The setTimeout callback: analyzeInitialGameState up to its fetch.
AnalyzeInitialGameState ==
  \E timer \in timers :
    /\ timers' = timers \ {timer}
    /\ IF isAnalyzingBaseline
       THEN UNCHANGED <<isAnalyzingBaseline, requests>>
       ELSE /\ isAnalyzingBaseline' = TRUE
            /\ requests' = requests \cup {AnalysisRequest(timer)}
    /\ UNCHANGED <<gameState, deck, irregular, solved, moveHistory, node,
                   snapshotVars, gameBaseline, game, executed>>

\* The response arrives: analyzeInitialGameState after its awaits.
AnalysisResponds ==
  \E request \in requests, callTime \in {SlowCall, FastCall}, openai \in OpenAI :
    \E response \in {POST(AnalysisBody(request), openai,
                          solveGameCompletely(request.gameState, callTime))} :
      /\ response.status = 200
      /\ requests' = requests \ {request}
      /\ gameBaseline' = Baseline(request, response)
      /\ isAnalyzingBaseline' = FALSE
      /\ UNCHANGED <<gameState, deck, irregular, solved, moveHistory, node,
                     snapshotVars, timers, game, executed>>

\* The fetch fails or the response is not ok: the catch branch.
AnalysisFails ==
  \E request \in requests :
    /\ requests' = requests \ {request}
    /\ gameBaseline' = NoBaseline
    /\ isAnalyzingBaseline' = FALSE
    /\ UNCHANGED <<gameState, deck, irregular, solved, moveHistory, node,
                   snapshotVars, timers, game, executed>>

NextBaseline ==
  \/ SnapshotNewGame
  \/ AnalyzeInitialGameState
  \/ AnalysisResponds
  \/ AnalysisFails

SpecBaseline == InitSnapshot /\ [][NextBaseline]_vars

\* ---------------------------------------------------------------- helpers
Range(f) == {f[x] : x \in DOMAIN f}

AllPiles(gs) ==
  <<gs.stock, gs.waste>>
  \o [i \in 1..Len(SUITS) |-> gs.foundations[SUITS[i]]]
  \o [k \in 1..NumTableaux |-> gs.tableaux[k]]

RECURSIVE Concat(_)
Concat(seqs) == IF Len(seqs) = 0 THEN <<>> ELSE Head(seqs) \o Concat(Tail(seqs))

AllCards(gs) == Concat(AllPiles(gs))

DeckIds == {createDeck[k].id : k \in 1..DeckSize}

\* C1. Card conservation: the piles together hold every card id of the
\* deck exactly once, in every state reached by draws and accepted moves.
CardConservation ==
  LET cards == AllCards(gameState)
  IN /\ Len(cards) = DeckSize
     /\ {cards[i].id : i \in 1..Len(cards)} = DeckIds

\* A game in which cards have moved between all kinds of piles.
CardConservationWitness ==
  /\ gameState.moves >= 2
  /\ Len(gameState.waste) > 0
  /\ \E s \in SuitSet : Len(gameState.foundations[s]) > 0
  /\ irregular > 0
  /\ CardConservation

\* C2. Foundation monotonicity: each foundation read bottom-to-top has the
\* ranks 1,2,...,n and only cards of the pile's fixed suit.
FoundationMonotonicity ==
  \A s \in SuitSet :
    LET cards == gameState.foundations[s]
    IN \A i \in 1..Len(cards) : cards[i].rank = i /\ cards[i].suit = s

\* C3. Tableau sequence law: in each tableau the face-down cards form a
\* prefix, and the face-up suffix descends by one and alternates colour.
TableauSequenceLaw ==
  \A k \in 1..NumTableaux :
    LET cards == gameState.tableaux[k]
    IN \A i \in 1..(Len(cards) - 1) :
         /\ cards[i].faceUp => cards[i + 1].faceUp
         /\ (cards[i].faceUp /\ cards[i + 1].faceUp) =>
              /\ cards[i].rank = cards[i + 1].rank + 1
              /\ isRed(cards[i].suit) # isRed(cards[i + 1].suit)

\* The Moves isValidMove rejects in the current state.
Rejected(move) == ~isValidMove(move, gameState)

IsCompleteConsistency ==
  gameState.isComplete <=> \A s \in SuitSet : Len(gameState.foundations[s]) = MaxRank

IsCompleteWitness ==
  /\ gameState.isComplete
  /\ \A s \in SuitSet : Len(gameState.foundations[s]) = MaxRank

\* C7. Move counter: every successful applyMove adds exactly 1 to moves;
\* drawFromStock, drawing or recycling, leaves moves unchanged.
MoveCounter ==
  /\ \A f \in PileIds :
       \A c \in MoveCards(getPileById(gameState, f)), t \in PileIds :
         LET move == Move(f, t, c)
         IN isValidMove(move, gameState) =>
              /\ applyMove(move, gameState).state.moves = gameState.moves + 1
              /\ makeMove(gameState, move).state.moves = gameState.moves + 1
  /\ drawFromStock(gameState).moves = gameState.moves

\* Moves were applied, the Stock was drawn empty and then recycled.
MoveCounterWitness ==
  /\ gameState.moves > 1
  /\ irregular = 0
  /\ Len(gameState.waste) = 0
  /\ Len(gameState.stock) > 1
  /\ gameState.stock # SubSeq(deck, TableauCardCount + 1, Len(deck))

\* C8. Deal shape: dealNewGame gives tableau column k exactly k cards of
\* which exactly the last is face-up, a Stock of the remaining cards (24 in
\* the source) face-down and in deck order, empty Waste and Foundations,
\* moves = 0, score = 0, isComplete = false, and every card id exactly once.
DealShape ==
  /\ \A k \in 1..NumTableaux :
       /\ Len(gameState.tableaux[k]) = k
       /\ \A i \in 1..k : gameState.tableaux[k][i].faceUp <=> i = k
  /\ Len(gameState.stock) = DeckSize - TableauCardCount
  /\ \A i \in 1..Len(gameState.stock) :
       /\ ~gameState.stock[i].faceUp
       /\ gameState.stock[i].id = deck[TableauCardCount + i].id
  /\ gameState.waste = <<>>
  /\ \A s \in SuitSet : gameState.foundations[s] = <<>>
  /\ gameState.moves = 0
  /\ gameState.score = 0
  /\ gameState.isComplete = FALSE
  /\ Len(AllCards(gameState)) = DeckSize
  /\ {AllCards(gameState)[i].id : i \in 1..Len(AllCards(gameState))} = DeckIds

\* A draw-3 deal of a deck that the shuffle has put out of factory order,
\* in cards dealt to the tableau and in cards left in the Stock.
DealShapeWitness ==
  /\ gameState.drawMode = 3
  /\ gameState.tableaux[1][1].id # createDeck[1].id
  /\ gameState.stock[1].id # createDeck[TableauCardCount + 1].id
  /\ Last(gameState.tableaux[NumTableaux]).faceUp

FaceDown(cards) == [i \in 1..Len(cards) |-> flipCard(cards[i], FALSE)]

\* C9. Recycle scenario: with drawMode 1, a draw on an empty Stock makes
\* the Stock the prior Waste reversed and face-down, of the same size, and
\* empties the Waste.
RecycleScenario ==
  [][(gameState.drawMode = 1 /\ Len(gameState.stock) = 0 /\ DrawFromStock) =>
       /\ gameState'.stock = FaceDown(Reverse(gameState.waste))
       /\ \A i \in 1..Len(gameState'.stock) : ~gameState'.stock[i].faceUp
       /\ gameState'.waste = <<>>
       /\ Len(gameState'.stock) = Len(gameState.waste)]_vars

\* The state after dealing with drawMode 1, drawing the whole Stock and
\* drawing once more.
RecycleWitness ==
  /\ gameState.drawMode = 1
  /\ gameState.moves = 0
  /\ gameState.waste = <<>>
  /\ gameState.stock = Reverse(SubSeq(deck, TableauCardCount + 1, Len(deck)))
  /\ Len(gameState.stock) >= 2

\* C10. Face-down cards are not movable: isValidMove rejects every move
\* from a tableau whose cards include a face-down card.
FaceDownNotMovable ==
  \A f \in TableauIds :
    \A c \in HonestCards(getPileById(gameState, f)), t \in PileIds :
      (\E i \in 1..Len(c) : ~c[i].faceUp) => ~isValidMove(Move(f, t, c), gameState)

\* ------------------------------------------------ replay of a solver path
\* The pile id of the Rules Engine a step of the sequence names.
EnginePileId(name) ==
  CASE name = "foundation-s" -> "foundation-spades"
    [] name = "foundation-h" -> "foundation-hearts"
    [] name = "foundation-d" -> "foundation-diamonds"
    [] name = "foundation-c" -> "foundation-clubs"
    [] OTHER -> name

CardText(card) == <<RankName(card.rank), card.suit>>

\* The cards of the Move a step stands for: the trailing cards of the from
\* pile that start at the face-up card the step names (<<>> if it is not
\* there); a move to a foundation or from Waste takes the top card only.
StepCards(step, gs) ==
  LET fromCards == getPileById(gs, step.from)
      starts == {i \in 1..Len(fromCards) :
                   fromCards[i].faceUp /\ CardText(fromCards[i]) = step.card}
  IN IF starts = {} THEN <<>>
     ELSE LET start == CHOOSE i \in starts : \A j \in starts : j <= i
          IN IF step.move = "tableau_to_tableau" \/ start = Len(fromCards)
             THEN SubSeq(fromCards, start, Len(fromCards))
             ELSE <<>>

\* Replays the steps from index i on: drawFromStock for draw_stock,
\* applyMove for the others; ok is FALSE as soon as applyMove throws.
RECURSIVE Replay(_, _, _)
Replay(sequence, i, gs) ==
  IF i > Len(sequence) THEN [ok |-> TRUE, state |-> gs]
  ELSE LET step == sequence[i]
       IN IF step.move = "draw_stock" THEN Replay(sequence, i + 1, drawFromStock(gs))
          ELSE LET r == applyMove(Move(step.from, EnginePileId(step.to), StepCards(step, gs)), gs)
               IN IF r.threw THEN [ok |-> FALSE, state |-> gs]
                  ELSE Replay(sequence, i + 1, r.state)

\* C5. Solver soundness: whenever solveGameCompletely reports found, the
\* returned sequence replayed from the original state through applyMove
\* and drawFromStock succeeds at every step and ends in a complete state.
SolverSoundness ==
  (solved.kind = "current" /\ solved.found) =>
    LET replayed == Replay(solved.sequence, 1, gameState)
    IN replayed.ok /\ replayed.state.isComplete

\* ------------------------------------------------------------ serializer
SameCards(a, b) == Len(a) = Len(b) /\ \A i \in 1..Len(a) : a[i] = b[i]

\* The piles, drawMode and moves of gs come back from a round trip.
RoundTrips(gs) ==
  LET back == deserializeGameState(serializeGameState(gs))
  IN /\ \A pid \in PileIds : SameCards(getPileById(back, pid), getPileById(gs, pid))
     /\ back.drawMode = gs.drawMode
     /\ back.moves = gs.moves

\* Every card's id is the `${suit}-${rank}` of the suit and rank it carries.
IdsFromSuitAndRank(gs) ==
  \A i \in 1..Len(AllCards(gs)) :
    AllCards(gs)[i].id = CardId(AllCards(gs)[i].suit, AllCards(gs)[i].rank)

\* C11. Serialization round trip: for every reachable GameState,
\* deserializeGameState(serializeGameState(state)) has in each pile the same
\* cards in the same order with the same id, suit, rank and orientation,
\* and the same drawMode and moves.
SerializationRoundTrip == RoundTrips(gameState)

\* The round trip does give back every pile, drawMode and moves of the
\* reachable GameStates whose cards carry the id of their own suit and rank.
SerializationRoundTripOfOwnIds == IdsFromSuitAndRank(gameState) => RoundTrips(gameState)

\* A game in progress with cards of both orientations in Stock, Waste, a
\* foundation and a tableau.
SerializationRoundTripWitness ==
  /\ IdsFromSuitAndRank(gameState)
  /\ gameState.moves > 1
  /\ Len(gameState.stock) > 0 /\ Len(gameState.waste) > 0
  /\ \E s \in SuitSet : Len(gameState.foundations[s]) > 0
  /\ \E k \in 1..NumTableaux : Len(gameState.tableaux[k]) > 1 /\ ~gameState.tableaux[k][1].faceUp
  /\ RoundTrips(gameState)

\* C12. Stock-to-waste transfers happen only through drawFromStock: every
\* Move with from = stock and to = waste is rejected by applyMove.
StockToWasteOnlyByDraw ==
  \A c \in MoveCards(gameState.stock) :
    Len(c) > 0 => applyMove(Move("stock", "waste", c), gameState).threw

\* C13. Stock/Waste orientation: every card in Stock is face-down and
\* every card in Waste is face-up.
StockWasteOrientation ==
  /\ \A i \in 1..Len(gameState.stock) : ~gameState.stock[i].faceUp
  /\ \A i \in 1..Len(gameState.waste) : gameState.waste[i].faceUp

\* --------------------------------------------------------------- purity
\* Every pile object of the caller's GameState holds in heap the cards it
\* holds in gs.  (The counters of the caller's object are fields of that
\* object; the transitions assign only to fields of the copy.)
Untouched(gs, heap) ==
  \A pid \in PileIds : heap[PileRef("gameState", pid)] = getPileById(gs, pid)

\* The object shares no pile object with the caller's.
Separate(object) ==
  \A pid \in PileIds : object.piles[pid][1] # "gameState"

\* C14. Purity of transitions: applyMove and drawFromStock never modify
\* the GameState they are given; after either call, successful or not,
\* every pile, card and counter of the input is as before, and the result
\* is a separate state (the state the transition function defines).
Purity ==
  \A input \in {Load(gameState)} :
    /\ \A f \in PileIds :
         \A c \in HonestCards(getPileById(gameState, f)), t \in PileIds :
           \A r \in {applyMoveOnHeap(Move(f, t, c), input.object, input.heap)} :
             \A expected \in {applyMove(Move(f, t, c), gameState)} :
               /\ Untouched(gameState, r.heap)
               /\ r.threw = expected.threw
               /\ ~r.threw =>
                    /\ Separate(r.object)
                    /\ Read(r.object, r.heap) = expected.state
    /\ \A drawn \in {drawFromStockOnHeap(input.object, input.heap)} :
         /\ Untouched(gameState, drawn.heap)
         /\ Separate(drawn.object)
         /\ Read(drawn.object, drawn.heap) = drawFromStock(gameState)

\* A game in progress in which a tableau move that exposes a face-down
\* card is accepted and a draw recycles the Waste.
PurityWitness ==
  /\ gameState.moves > 0
  /\ Len(gameState.stock) = 0 /\ Len(gameState.waste) > 1
  /\ \E f \in TableauIds, t \in PileIds :
       LET cards == getPileById(gameState, f)
       IN /\ Len(cards) > 1
          /\ ~cards[Len(cards) - 1].faceUp
          /\ isValidMove(Move(f, t, <<Last(cards)>>), gameState)
  /\ Purity

\* ------------------------------------------------------ the solve request
\* The request was answered by the local analysis alone.
LocalAnswer == solved.kind # "none" /\ solved.ran /\ solved.openai.kind \in {"no-key", "error"}

\* The solver's own sequence, as the response carries it.
FoundShape(response, solution) ==
  /\ response.isWinnable
  /\ response.hasSequence /\ response.optimalSequence = solution.sequence
  /\ response.optimalMoves = 10 * Len(solution.sequence)
  /\ \A i \in 1..Len(solution.sequence) : solution.sequence[i].moveNumber = i

\* The heuristic fallback: the estimate of analyzeSpecificGamePosition
\* and no sequence.
FallbackShape(response, state) ==
  LET analysis == analyzeSpecificGamePosition(state)
  IN /\ ~response.hasSequence /\ response.optimalSequence = <<>>
     /\ response.isWinnable = analysis.isWinnable
     /\ response.optimalMoves = analysis.estimatedMoves
     /\ response.confidence = analysis.confidence

\* The depth caps tried on dfs for the current state.
DepthCaps(solution) == {0, ShallowDepth} \cup {Len(solution.sequence) - 1}

CallerSuppliedBounds ==
  (solved.kind # "none" /\ solved.ran) =>
    /\ solved.solution.deepest <= solved.body.maxDepth + 1
    /\ solved.solution.expandedAt <= solved.body.timeLimit

\* The serialized state of the request lacks a pile key or its piles do
\* not total the whole deck.
Malformed(body) == body.missing # "nothing" \/ TotalCards(body.gameState) # DeckSize

\* C17. Malformed serialized state: a solve request whose state lacks a
\* required pile key or whose piles do not total the whole deck is answered
\* with a structured failure (a response carrying an error), and neither a
\* solution nor an estimate is computed from that state.
MalformedStateRejected ==
  (solved.kind # "none" /\ Malformed(solved.body)) =>
    /\ ~solved.ran
    /\ solved.response.error # ""
    /\ ~solved.response.hasSequence
    /\ solved.response.optimalMoves = createErrorResponse("").optimalMoves
    /\ solved.response.confidence = createErrorResponse("").confidence

\* C18. Heuristic bounds: whenever the solver answers with the heuristic
\* fallback (no full solution found), the move estimate is within [5, 150]
\* (optimalMoves is in tenths) and the confidence within [5, 95], whatever
\* the state's moves counter.
HeuristicBounds ==
  (LocalAnswer /\ ~solved.found) =>
    /\ 50 <= solved.response.optimalMoves /\ solved.response.optimalMoves <= 1500
    /\ 5 <= solved.response.confidence /\ solved.response.confidence <= 95

FaceUpTop(cards) == Len(cards) = 0 \/ cards[Len(cards)].faceUp

\* ------------------------------------------- the solver and the engine
\* The invariants of the piles: the whole deck once, every card the one
\* its id names, foundations by suit from the Ace up, tableaux face-down
\* then a face-up run, Stock face-down and Waste face-up.
PileInvariants ==
  /\ CardConservation /\ IdsFromSuitAndRank(gameState)
  /\ FoundationMonotonicity /\ TableauSequenceLaw /\ StockWasteOrientation

\* The cards of a serialized state in the pile the engine calls pileId.
SerializedPile(state, pileId) == serializeCards(getPileById(deserializeGameState(state), pileId))

\* The Move a child of the solver corresponds to: from and to as the
\* child names them, and the cards its newState took off the from pile.
ChildMove(child, state, gs) ==
  LET fromCards == getPileById(gs, child.from)
      taken == Len(SerializedPile(state, child.from)) - Len(SerializedPile(child.newState, child.from))
  IN Move(child.from, EnginePileId(child.to),
          SubSeq(fromCards, Len(fromCards) - taken + 1, Len(fromCards)))

\* The children of the solver that move cards between piles.
CardMovingChildren(state) ==
  getFoundationMoves(state) \o getTableauMoves(state) \o getWasteMoves(state)

SamePiles(a, b) ==
  /\ a.stock = b.stock /\ a.waste = b.waste
  /\ a.foundations = b.foundations /\ a.tableaux = b.tableaux

\* The child is a move the engine accepts and has the piles applyMove gives.
ChildIsEngineMove(child, state, gs) ==
  \A move \in {ChildMove(child, state, gs)} :
    /\ isValidMove(move, gs)
    /\ SamePiles(child.newState, serializeGameState(applyMove(move, gs).state))

\* C19. The solver never bypasses validation: in every state satisfying
\* the pile invariants, every card-moving child the solver generates is a
\* Move that isValidMove accepts on that state, and the child's piles are
\* the piles applyMove produces for it, the flip of an exposed card included.
SolverChildrenAreEngineMoves ==
  PileInvariants =>
    \A state \in {serializeGameState(gameState)} :
      \A children \in {CardMovingChildren(state)} :
        \A i \in 1..Len(children) : ChildIsEngineMove(children[i], state, gameState)

\* The same for the states in which every tableau that holds cards shows
\* its top card.
TopCardsShown == \A k \in 1..NumTableaux : FaceUpTop(gameState.tableaux[k])

SolverChildrenAreEngineMovesTopShown ==
  TopCardsShown => SolverChildrenAreEngineMoves

\* C20. The solver's draw step matches the Rules Engine: in every state
\* with cards in Stock, with drawMode 1 and 3, the child the solver
\* generates for draw_stock has the Stock and the Waste (cards, order and
\* orientation) of drawFromStock applied to that state.
SolverDrawMatchesEngine ==
  Len(gameState.stock) > 0 =>
    \A state \in {serializeGameState(gameState)} :
      \A drawn \in {serializeGameState(drawFromStock(gameState))} :
        \A i \in 1..Len(getStockMove(state)) :
          /\ getStockMove(state)[i].newState.stock = drawn.stock
          /\ getStockMove(state)[i].newState.waste = drawn.waste

StoreDrawMatchesCore ==
  \A input \in {Load(gameState)} :
    \A drawn \in {drawCardsOnHeap(input.object, input.heap)} :
      SamePiles(Read(drawn.object, drawn.heap), drawFromStock(gameState))

StoreDrawLeavesPreviousState ==
  \A input \in {Load(gameState)} :
    \A drawn \in {drawCardsOnHeap(input.object, input.heap)} :
      Untouched(gameState, drawn.heap)

StoreDrawRefinesCore ==
  /\ StoreDrawMatchesCore
  /\ StoreDrawLeavesPreviousState

\* C23. Undo restores the previous position: after a successful makeMove
\* from a state s, undo sets currentState back to s, whatever the length of
\* the history.
UndoRestoresPosition ==
  \A f \in PileIds :
    \A c \in HonestCards(getPileById(gameState, f)), t \in PileIds :
      \A made \in {storeMakeMove(TheStore, Move(f, t, c))} :
        made.returned =>
          \A seed \in 0..MaxSeed :
            undo(made.store, seed).currentState = gameState

\* C24. drawFromStock on a non-empty Stock removes exactly
\* min(drawMode, stock size) cards from the front of the Stock and puts them
\* on top of the Waste, face-up and in the same relative order, leaving the
\* rest of the Stock, the cards already in the Waste and every other pile
\* as they were; so also with drawMode 3 and fewer than 3 cards left.
DrawFromStockLaw ==
  Len(gameState.stock) > 0 =>
    \A r \in {drawFromStock(gameState)} :
      \A n \in {Min(gameState.drawMode, Len(gameState.stock))} :
        /\ Len(r.stock) = Len(gameState.stock) - n
        /\ \A i \in 1..Len(r.stock) : r.stock[i] = gameState.stock[i + n]
        /\ Len(r.waste) = Len(gameState.waste) + n
        /\ \A i \in 1..Len(gameState.waste) : r.waste[i] = gameState.waste[i]
        /\ \A j \in 1..n :
             /\ r.waste[Len(gameState.waste) + j].id = gameState.stock[j].id
             /\ r.waste[Len(gameState.waste) + j].suit = gameState.stock[j].suit
             /\ r.waste[Len(gameState.waste) + j].rank = gameState.stock[j].rank
             /\ r.waste[Len(gameState.waste) + j].faceUp
        /\ r.foundations = gameState.foundations
        /\ r.tableaux = gameState.tableaux
        /\ r.drawMode = gameState.drawMode

DrawFromStockLawWitness ==
  /\ gameState.drawMode = 3
  /\ Len(gameState.stock) \in 1..2
  /\ Len(gameState.waste) > 0
  /\ Len(drawFromStock(gameState).stock) = 0

\* C25. canPlaceOnTableau(cardsToPlace, tableauCards) is true exactly when
\* cardsToPlace is non-empty and either the tableau is empty and the first
\* card to place is a King, or the first card's rank is one less than the
\* rank of the tableau's top card and their colours differ; a card that is
\* not a King is rejected on an empty tableau.
Colour(suit) == IF suit \in {"hearts", "diamonds"} THEN "red" ELSE "black"

TableauPlacementRule(cardsToPlace, tableauCards) ==
  /\ cardsToPlace # <<>>
  /\ \/ tableauCards = <<>> /\ cardsToPlace[1].rank = KingRank
     \/ /\ tableauCards # <<>>
        /\ cardsToPlace[1].rank + 1 = tableauCards[Len(tableauCards)].rank
        /\ Colour(cardsToPlace[1].suit) # Colour(tableauCards[Len(tableauCards)].suit)

TableauPlacementLaw ==
  \A f \in PileIds, t \in TableauIds :
    \A cardsToPlace \in HonestCards(getPileById(gameState, f)) :
      canPlaceOnTableau(cardsToPlace, getPileById(gameState, t))
        <=> TableauPlacementRule(cardsToPlace, getPileById(gameState, t))

TableauPlacementLawWitness ==
  \E f \in PileIds, t \in TableauIds :
    \E lone, king \in HonestCards(getPileById(gameState, f)) :
      /\ getPileById(gameState, t) = <<>>
      /\ Len(lone) = 1 /\ lone[1].rank # KingRank
      /\ ~canPlaceOnTableau(lone, getPileById(gameState, t))
      /\ Len(king) >= 1 /\ king[1].rank = KingRank
      /\ canPlaceOnTableau(king, getPileById(gameState, t))

\* C26. getMovableTableauCards returns, for every pile, the maximal suffix
\* of the pile that is entirely face-up and in which every adjacent pair
\* descends by one rank and alternates colour; the cards it returns always
\* form a valid run.
MaximalRun(tableauCards) ==
  TrailingCards(tableauCards,
                CHOOSE n \in 0..Len(tableauCards) :
                  /\ IsRun(TrailingCards(tableauCards, n))
                  /\ \A m \in (n + 1)..Len(tableauCards) :
                       ~IsRun(TrailingCards(tableauCards, m)))

MovableCardsAreMaximalRun ==
  \A t \in TableauIds :
    \A movable \in {getMovableTableauCards(getPileById(gameState, t))} :
      /\ IsRun(movable)
      /\ movable = MaximalRun(getPileById(gameState, t))

\* C27. After a successful applyMove whose source is a tableau, the new top
\* card of the source tableau (if any) is face-up; apart from that one card
\* no card's orientation changes, and a move from a source that is not a
\* tableau flips nothing.
Orientation(gs) ==
  UNION {{<<getPileById(gs, pid)[i].id, getPileById(gs, pid)[i].faceUp>> :
            i \in 1..Len(getPileById(gs, pid))} : pid \in PileIds}

ExposedTop(move, after) ==
  IF move.from \in TableauIds /\ Len(getPileById(after, move.from)) > 0
  THEN {<<Last(getPileById(after, move.from)).id, TRUE>>}
  ELSE {}

FlipsOnlyExposedCardAfter(move) ==
  \A r \in {applyMove(move, gameState)} :
    ~r.threw =>
      /\ (move.from \in TableauIds /\ Len(getPileById(r.state, move.from)) > 0)
           => Last(getPileById(r.state, move.from)).faceUp
      /\ Orientation(r.state) \ Orientation(gameState) \subseteq ExposedTop(move, r.state)

FlipsOnlyExposedCard ==
  \A f \in PileIds :
    \A c \in MoveCards(getPileById(gameState, f)), t \in PileIds :
      FlipsOnlyExposedCardAfter(Move(f, t, c))

\* C28. findAutocompleteMoves returns a move for the top card of the Waste,
\* or for the face-up top card of a tableau, exactly when that card can
\* legally go on the foundation of its own suit and is safe: its rank is at
\* most 2, or both foundations of the opposite colour have a top card of
\* rank at least the card's rank minus one.  It returns nothing else, the
\* Waste candidate first and the tableaux in the order 1..7.
OwnFoundationTakes(card, gs) ==
  LET own == gs.foundations[card.suit]
  IN \/ own = <<>> /\ card.rank = 1
     \/ own # <<>> /\ own[Len(own)].suit = card.suit /\ own[Len(own)].rank + 1 = card.rank

SafeToAutoMove(card, gs) ==
  \/ card.rank <= 2
  \/ \A s \in SuitSet :
       Colour(s) # Colour(card.suit) =>
         /\ gs.foundations[s] # <<>>
         /\ gs.foundations[s][Len(gs.foundations[s])].rank >= card.rank - 1

AutoCandidates == <<"waste">> \o [i \in 1..NumTableaux |-> TableauName[i]]

HasCandidateTop(gs, pid) ==
  /\ getPileById(gs, pid) # <<>>
  /\ pid \in TableauIds => Last(getPileById(gs, pid)).faceUp

ExpectedAutoMoves(gs) ==
  Flatten([j \in 1..Len(AutoCandidates) |->
             LET pid == AutoCandidates[j]
                 top == Last(getPileById(gs, pid))
             IN IF HasCandidateTop(gs, pid) /\ OwnFoundationTakes(top, gs) /\ SafeToAutoMove(top, gs)
                THEN <<[from |-> pid, to |-> FoundationName[top.suit], cards |-> <<top>>]>>
                ELSE <<>>])

AutocompleteMovesLaw ==
  findAutocompleteMoves(gameState) = ExpectedAutoMoves(gameState)

AutocompleteMovesLawWitness ==
  \E moves \in {findAutocompleteMoves(gameState)} :
    /\ Len(moves) >= 2
    /\ moves[1].from = "waste"
    /\ \E i \in 1..Len(moves) : moves[i].cards[1].rank > 2
    /\ \E pid \in TableauIds :
         /\ HasCandidateTop(gameState, pid)
         /\ OwnFoundationTakes(Last(getPileById(gameState, pid)), gameState)
         /\ ~SafeToAutoMove(Last(getPileById(gameState, pid)), gameState)

\* C29. autoComplete always terminates after at most 52 moves and never
\* raises (a failed applyMove ends the loop); every move it applies is a
\* single-card move to a foundation that isValidMove accepts, so the state
\* it returns keeps the cards of the state it was given and satisfies the
\* foundation and tableau invariants.
FoundationOrdered(gs) ==
  \A s \in SuitSet :
    \A i \in 1..Len(gs.foundations[s]) :
      gs.foundations[s][i].rank = i /\ gs.foundations[s][i].suit = s

TableauOrdered(gs) ==
  \A k \in 1..NumTableaux :
    \A i \in 1..(Len(gs.tableaux[k]) - 1) :
      /\ gs.tableaux[k][i].faceUp => gs.tableaux[k][i + 1].faceUp
      /\ (gs.tableaux[k][i].faceUp /\ gs.tableaux[k][i + 1].faceUp) =>
           /\ gs.tableaux[k][i].rank = gs.tableaux[k][i + 1].rank + 1
           /\ Colour(gs.tableaux[k][i].suit) # Colour(gs.tableaux[k][i + 1].suit)

CardIdsOf(gs) ==
  UNION {{getPileById(gs, pid)[i].id : i \in 1..Len(getPileById(gs, pid))} : pid \in PileIds}

CardCountOf(gs) ==
  Len(gs.stock) + Len(gs.waste)
  + SumOver([i \in 1..Len(SUITS) |-> Len(gs.foundations[SUITS[i]])], Len(SUITS))
  + SumOver([k \in 1..NumTableaux |-> Len(gs.tableaux[k])], NumTableaux)

AutoCompleteLaw ==
  \A run \in {autoCompleteRun(gameState)} :
    /\ Len(run.applied) <= 52
    /\ ~run.raised
    /\ \A i \in 1..Len(run.applied) :
         /\ Len(run.applied[i].cards) = 1
         /\ run.applied[i].to \in FoundationIds
         /\ isValidMove(run.applied[i], run.before[i])
    /\ CardIdsOf(run.state) = CardIdsOf(gameState)
    /\ CardCountOf(run.state) = CardCountOf(gameState)
    /\ FoundationOrdered(run.state)
    /\ TableauOrdered(run.state)

AutoCompleteLawWitness ==
  \E run \in {autoCompleteRun(gameState)} :
    /\ Len(run.applied) >= 3
    /\ \E i \in 1..Len(run.applied) : run.applied[i].from = "waste"
    /\ \E i \in 1..Len(run.applied) :
         /\ run.applied[i].from \in TableauIds
         /\ Len(getPileById(run.before[i], run.applied[i].from)) > 1
         /\ ~getPileById(run.before[i], run.applied[i].from)[1].faceUp
    /\ \E i \in 1..Len(run.applied) : run.applied[i].cards[1].rank > 2

\* C30. The solver's stock draw is a last resort: at every search node the
\* solver generates the stock-draw move only if that node has no
\* card-moving option.
StockDrawIsLastResort ==
  \A state \in {serializeGameState(gameState)} :
    \A moves \in {getAllPossibleMoves(state, FALSE)} :
      (\E i \in 1..Len(moves) : moves[i].move = "draw_stock") =>
        \A i \in 1..Len(moves) : moves[i].move = "draw_stock"

\* C31. Solver child ordering: at every node the search recurses into the
\* children in priority order: all moves to a foundation first, then the
\* tableau-to-tableau moves, then the waste-to-tableau moves, and the stock
\* draw last.
ChildPriority(child) ==
  CASE child.move = "draw_stock" -> 4
    [] child.to \in TableauIds /\ child.from = "waste" -> 3
    [] child.to \in TableauIds /\ child.from \in TableauIds -> 2
    [] OTHER -> 1

ChildrenInOrder(state) == sortMoves(getAllPossibleMoves(state, FALSE))

SolverChildOrdering ==
  \A children \in {ChildrenInOrder(serializeGameState(gameState))} :
    \A i, j \in 1..Len(children) :
      i < j => ChildPriority(children[i]) <= ChildPriority(children[j])

SolverChildOrderingWitness ==
  \E children \in {ChildrenInOrder(serializeGameState(gameState))} :
    \A priority \in 1..4 :
      \E i \in 1..Len(children) : ChildPriority(children[i]) = priority

\* C32. Solver run lengths: for each source tableau the solver tries the
\* valid movable-sequence lengths from longest to shortest, so among the
\* tableau-to-tableau children of one source pile a longer run is explored
\* before a shorter one.
TableauKeyOf(pid) == CHOOSE k \in 1..Len(TableauName) : TableauName[k] = pid

RunLength(state, child) ==
  Len(state.tableaux[TableauKeyOf(child.from)])
  - Len(child.newState.tableaux[TableauKeyOf(child.from)])

LongerRunsFirst ==
  \A children \in {sortMoves(getAllPossibleMoves(node, FALSE))} :
    \A i, j \in 1..Len(children) :
      (/\ i < j
       /\ children[i].move = "tableau_to_tableau"
       /\ children[j].move = "tableau_to_tableau"
       /\ children[i].from = children[j].from)
        => RunLength(node, children[i]) >= RunLength(node, children[j])

\* C33. Solver memoization: within one search call no serialized state has
\* its moves generated more than once (every generation is for a state
\* newly added to the visited set); a node whose serialized state is
\* already in the visited set returns not-found without generating or
\* exploring children, so the search cannot cycle.
SolverMemoization ==
  (solved.kind # "none" /\ solved.ran) =>
    /\ solved.solution.generations = solved.solution.visitedSize
    /\ \A state \in {solved.body.gameState} :
         \A again \in {dfs(state, 0, <<>>, {state}, 0, solved.callTime, maxDepth)} :
           isGameWon(state) \/
             (~again.found /\ again.generations = 0 /\ again.visited = {state})

SolverMemoizationWitness ==
  /\ solved.kind # "none" /\ solved.ran
  /\ solved.solution.revisits > 0
  /\ solved.solution.generations > 2

\* C34. applyMove transfers the cards as they are in the source pile: after
\* a successful applyMove the cards appended to the destination have the
\* same id, suit, rank and face orientation as the trailing cards removed
\* from the source, even when the Move's card objects carry a matching id
\* but a different suit, rank or faceUp value.
MoveTransfersSourceCards ==
  \A f \in PileIds :
    \A c \in MoveCards(getPileById(gameState, f)), t \in PileIds \ {f} :
      \A r \in {applyMove(Move(f, t, c), gameState)} :
        ~r.threw =>
          TrailingCards(getPileById(r.state, t), Len(c))
            = TrailingCards(getPileById(gameState, f), Len(c))

\* C35. autoComplete reaches a fixed point: canAutoComplete(autoComplete(s))
\* is false and autoComplete(autoComplete(s)) has the same piles and moves
\* count as autoComplete(s); the 52-move cap never cuts the loop short while
\* a candidate remains.
AutoCompleteFixedPoint ==
  \A done \in {autoCompleteRun(gameState)} :
    /\ ~canAutoComplete(done.state)
    /\ SamePiles(autoComplete(done.state), done.state)
    /\ autoComplete(done.state).moves = done.state.moves
    /\ ~done.caught

AutoCompleteFixedPointWitness ==
  \E done \in {autoCompleteRun(gameState)} :
    /\ Len(done.applied) >= 4
    /\ Len(done.state.stock) + Len(done.state.waste) > 0
    /\ \E k \in 1..NumTableaux : Len(done.state.tableaux[k]) > 0

\* C36. With no card-moving move in between, drawing through the entire
\* Stock and then recycling restores the Stock to the order it had before
\* the pass, in drawMode 1 and in drawMode 3.
RECURSIVE DrawThroughStock(_)
DrawThroughStock(gs) ==
  IF Len(gs.stock) = 0 THEN gs ELSE DrawThroughStock(drawFromStock(gs))

StockOrderStableAcrossPasses ==
  (Len(gameState.waste) = 0 /\ Len(gameState.stock) > 0) =>
    \A recycled \in {drawFromStock(DrawThroughStock(gameState))} :
      recycled.stock = gameState.stock

\* C37. At a node with an empty Stock and a non-empty Waste the solver
\* generates a stock move whose resulting state has the Waste recycled into
\* the Stock (reversed, face down) as drawFromStock does.
TokenFaceDown(cardStr) == <<cardStr[1], cardStr[2], "0">>

RecycledStock(state) ==
  [i \in 1..Len(state.waste) |-> TokenFaceDown(Reverse(state.waste)[i])]

SolverRecyclesExhaustedStock ==
  (node # NoNode /\ Len(node.stock) = 0 /\ Len(node.waste) > 0) =>
    \E child \in Range(getAllPossibleMoves(node, FALSE)) :
      /\ child.move = "draw_stock"
      /\ child.newState.waste = <<>>
      /\ child.newState.stock = RecycledStock(node)

\* C38. In the snapshot store, after any sequence of newGame, makeMove,
\* drawCards, autoCompleteGame, undo and redo, canUndo is true exactly when
\* undoStack is non-empty and canRedo is true exactly when redoStack is
\* non-empty.
FlagsFollowStacks ==
  /\ canUndo <=> Len(undoStack) > 0
  /\ canRedo <=> Len(redoStack) > 0

\* C39. Whenever gameBaseline is non-null it was computed from the deal of
\* the game now in currentState, under every interleaving of newGame, the
\* delayed analyzeInitialGameState callbacks and the solve responses.
DealOfCurrentGame == dealNewGame(deck, gameState.drawMode)

BaselineIsOfCurrentGame ==
  gameBaseline # NoBaseline =>
    gameBaseline.gameState = serializeGameState(DealOfCurrentGame)

\* -------------------------------------------- following the optimal sequence
Null == [kind |-> "null"]

getNextOptimalMove(baseline, currentState) ==
  IF baseline = NoBaseline \/ currentState.isComplete THEN Null
  ELSE IF Len(baseline.optimalSequence) = 0 THEN Null
  ELSE IF currentState.moves >= Len(baseline.optimalSequence) THEN Null
  ELSE baseline.optimalSequence[currentState.moves + 1]

\* The player carries out the next step of the baseline's optimalSequence:
\* drawCards for draw_stock, makeMove with the step's cards for the others.
\* executed counts the steps carried out since the deal.
FollowOptimalStep ==
  /\ gameBaseline # NoBaseline
  /\ gameBaseline.gameState = serializeGameState(dealNewGame(deck, gameState.drawMode))
  /\ executed < Len(gameBaseline.optimalSequence)
  /\ \E step \in {gameBaseline.optimalSequence[executed + 1]} :
       IF step.move = "draw_stock"
       THEN /\ gameState' = drawFromStock(gameState)
            /\ undoStack' = Append(undoStack, gameState)
            /\ redoStack' = <<>>
            /\ canUndo' = TRUE /\ canRedo' = FALSE
            /\ UNCHANGED moveHistory
       ELSE \E move \in {Move(step.from, EnginePileId(step.to), StepCards(step, gameState))} :
              \E result \in {makeMove(gameState, move)} :
                /\ result.success
                /\ gameState' = result.state
                /\ moveHistory' = Append(moveHistory, move)
                /\ undoStack' = Append(undoStack, gameState)
                /\ redoStack' = <<>>
                /\ canUndo' = TRUE /\ canRedo' = FALSE
  /\ executed' = executed + 1
  /\ UNCHANGED <<deck, irregular, solved, node,
                 gameBaseline, isAnalyzingBaseline, timers, requests, game>>

NextHint ==
  \/ SnapshotNewGame
  \/ AnalyzeInitialGameState
  \/ AnalysisResponds
  \/ FollowOptimalStep

SpecHint == InitSnapshot /\ [][NextHint]_vars

\* C40. After the player has executed exactly the first k steps of the
\* baseline's optimalSequence (card moves through makeMove, draw_stock
\* through drawCards), getNextOptimalMove returns step k+1, also when some
\* of the k steps are draws.
NextOptimalMoveIsNextStep ==
  (/\ gameBaseline # NoBaseline
   /\ gameBaseline.gameState = serializeGameState(DealOfCurrentGame)
   /\ executed < Len(gameBaseline.optimalSequence)
   /\ ~gameState.isComplete) =>
    \E next \in {getNextOptimalMove(gameBaseline, gameState)} :
      /\ next # Null
      /\ next.moveNumber = gameBaseline.optimalSequence[executed + 1].moveNumber
      /\ next.move = gameBaseline.optimalSequence[executed + 1].move
      /\ next.from = gameBaseline.optimalSequence[executed + 1].from
      /\ next.to = gameBaseline.optimalSequence[executed + 1].to
====
